---- MODULE Spec2Model ----
(***************************************************************************)
(* A model of the grammar compiler front end of tree-sitter's CLI:         *)
(*   - InputGrammar::remove_unused_rules and rule_is_used                  *)
(*       (cli/generate/src/grammars.rs)                                    *)
(*   - LexicalGrammar::variable_index_for_nfa_state (same file)            *)
(*   - generate_parser_in_directory / generate_parser_for_grammar_with_opts*)
(*       (cli/generate/src/lib.rs and cli/src/generate/mod.rs)             *)
(*   - conflict resolution and variable inlining of the table builder      *)
(*       (described by the specification; declared in grammars.rs)         *)
(*   - Visitor::perform (cli/src/visitor.rs)                               *)
(*   - OutputFormat::parse (cli/src/parse.rs, cli/src/render.rs)           *)
(*   - Inputs::collect (cli/src/input.rs)                                  *)
(*   - ScopeRange::parse_inputs (cli/src/render.rs)                        *)
(*   - parse_input: the choice of an encoding, the conversion of offsets   *)
(*       and positions, the search for the first error (cli/src/parse.rs)  *)
(***************************************************************************)
EXTENDS Integers, Sequences, FiniteSets, TLC

VARIABLES
    input,      \* the InputGrammar handed to remove_unused_rules
    grammar,    \* the InputGrammar as mutated in place (&mut self)
    prev,       \* the value of `grammar` before the latest call
    calls,      \* number of remove_unused_rules calls made so far
    compiled,   \* results of the generate_parser_for_grammar runs on `input`
    start_states, \* LexicalGrammar.variables[i].start_state, in index order
    state_id,   \* the NFA state id last looked up
    owner,      \* what variable_index_for_nfa_state returned for it
    crate,      \* which generate_parser_in_directory runs: "generate" or "cli"
    grammar_path, \* the grammar_path argument
    dir_empty,  \* whether repo_path is an empty directory
    generate_bindings, \* the generate_bindings argument (cli only)
    pc,         \* the statement generate_parser_in_directory is at
    error,      \* the call whose error was returned, or "none"
    completed,  \* the compilation stages that have returned successfully
    written,    \* the files written so far, in order
    conflict,   \* the parse-table conflict being resolved
    criterion,  \* the criterion the resolution consults next
    consulted,  \* the criteria consulted so far, in order
    resolution, \* what the resolution decided
    before,     \* the decision before a dynamic_precedence was raised
    syntax,     \* the productions and variables_to_inline being inlined
    expansion,  \* the production steps being expanded, innermost last
    inlining,   \* how far the inlining of `syntax` has got
    tree,       \* the syntax tree under the cursor: the parent of each node
    cursor,     \* Context.cursor: the node the TreeCursor is on
    traversed,  \* Context.traversed
    at,         \* the statement Visitor::perform is at
    events,     \* the Visitor methods called so far, with their context
    flags_text, \* the flag characters given with --output
    outputs,    \* what OutputFormat::parse returned, per spelling of the format
    paths_file, \* Inputs::collect's paths_file argument and what the file holds
    paths,      \* Inputs::collect's paths argument
    inputs,     \* the Vec<Input> being collected
    next_snippet, \* the next_snippet flag of the loop over paths
    remaining,  \* the lines or arguments still to be processed
    collecting, \* the statement Inputs::collect is at
    collected,  \* the Result Inputs::collect returned
    occurrences, \* ScopeRange::parse_inputs' argument: the values of each --limit-range
    next_input, \* the index of the occurrence the loop takes next
    limit_ranges, \* the Vec<ScopeRange> being built
    parsed,     \* what ScopeRange::parse_inputs returned
    source_code, \* ParserInput.source_code: the bytes of the source file
    encoding,   \* the encoding parse_input chose for source_code
    bom_len,    \* the bom_len parse_input chose with it
    decoding,   \* the statement parse_input is at with source_code
    edit_source, \* the input argument of the two position functions
    edit_offset, \* the offset argument of position_for_offset
    edit_probe, \* a position argument of offset_for_position
    edit_position, \* what position_for_offset returned for edit_offset
    edit_found, \* what offset_for_position returned for edit_position
    probe_found, \* what offset_for_position returned for edit_probe
    parse_result, \* the Option<Tree> the parser returned to parse_input
    options,    \* parse_input's print_time and whether the output is a CST
    search_cursor, \* the node `cursor` is on in the search for an error
    first_error, \* parse_input's first_error
    reported,   \* the node named in the line written after the search
    searching,  \* the statement parse_input is at behind the parse
    search_result \* what parse_input returned

grammarVars == <<input, grammar, prev, calls, compiled>>
lexVars == <<start_states, state_id, owner>>
pipelineVars == <<crate, grammar_path, dir_empty, generate_bindings, pc, error,
                  completed, written>>
conflictVars == <<conflict, criterion, consulted, resolution, before>>
inlineVars == <<syntax, expansion, inlining>>
builderVars == <<conflictVars, inlineVars>>
visitorVars == <<tree, cursor, traversed, at, events>>
formatVars == <<flags_text, outputs>>
collectVars == <<paths_file, paths, inputs, next_snippet, remaining, collecting,
                 collected>>
scopeVars == <<occurrences, next_input, limit_ranges, parsed>>
encodingVars == <<source_code, encoding, bom_len, decoding>>
editVars == <<edit_source, edit_offset, edit_probe, edit_position, edit_found,
              probe_found>>
searchVars == <<parse_result, options, search_cursor, first_error, reported,
                searching, search_result>>
parseVars == <<encodingVars, editVars, searchVars>>
cliVars == <<visitorVars, formatVars, collectVars, scopeVars, parseVars>>
vars == <<grammarVars, lexVars, pipelineVars, builderVars, cliVars>>

(***************************************************************************)
(* Bounds of the model.                                                    *)
(***************************************************************************)
MaxVars == 3
MaxCalls == 2
MaxRuns == 2
MaxLexVars == 3
MaxStateId == 5

(***************************************************************************)
(* Rule (rules.rs is used through grammars.rs:48-57): a tagged union.      *)
(* Every rule is a record of the same shape; `name` carries the payload of *)
(* NamedSymbol / String, `members` the children of Choice / Seq and the    *)
(* single inner rule of Repeat / Metadata.                                 *)
(***************************************************************************)
Blank == [type |-> "Blank", name |-> "", members |-> <<>>]
RuleString(s) == [type |-> "String", name |-> s, members |-> <<>>]
NamedSymbol(n) == [type |-> "NamedSymbol", name |-> n, members |-> <<>>]
Choice(rules) == [type |-> "Choice", name |-> "", members |-> rules]
RuleSeq(rules) == [type |-> "Seq", name |-> "", members |-> rules]
Repeat(inner) == [type |-> "Repeat", name |-> "", members |-> <<inner>>]
Metadata(rule) == [type |-> "Metadata", name |-> "", members |-> <<rule>>]

Variable(name, rule) == [name |-> name, rule |-> rule]

(***************************************************************************)
(* The grammars the model feeds to the code.  Variable i is called         *)
(* RuleNames[i] (rule names are the keys of the document's `rules` map, so *)
(* they are distinct); index 1 is the start symbol.                        *)
(***************************************************************************)
RuleNames == <<"source_file", "stmt", "expr", "term", "atom">>
UndefinedName == "undefined_rule"

Declared(n) == {RuleNames[i] : i \in 1..n}

RuleUniverse(n) ==
    {RuleString("x"), Choice(<<RuleString("a"), Blank>>)}
    \cup {NamedSymbol(m) : m \in Declared(n) \cup {UndefinedName}}
    \cup {Repeat(NamedSymbol(m)) : m \in Declared(n)}
    \cup {RuleSeq(<<NamedSymbol(RuleNames[p[1]]), Metadata(NamedSymbol(RuleNames[p[2]]))>>) :
            p \in {q \in (1..n) \X (1..n) : q[1] < q[2]}}

InputGrammar(variables, listed) ==
    [variables |-> variables,
     extra_symbols |-> <<RuleString(" ")>> \o [k \in 1..Len(listed) |-> NamedSymbol(listed[k])],
     external_tokens |-> [k \in 1..Len(listed) |-> NamedSymbol(listed[k])],
     variables_to_inline |-> listed,
     supertype_symbols |-> listed]

\* The names listed as extra, external token, inline request and supertype:
\* none, the start symbol, or the last variable.
ListedNames(n) == {<<>>, <<RuleNames[1]>>, <<RuleNames[n]>>}

\* g is one of the grammars of at most `size` variables.
IsInputGrammar(g, size) ==
    \E n \in 1..size :
        \E rs \in [1..n -> RuleUniverse(n)], listed \in ListedNames(n) :
            g = InputGrammar([i \in 1..n |-> Variable(RuleNames[i], rs[i])], listed)

(***************************************************************************)
(* InputGrammar::rule_is_used (grammars.rs:48-57).  The closure is run for *)
(* every variable v of the grammar; only the NamedSymbol arm looks at v.   *)
(***************************************************************************)
RECURSIVE rule_is_used(_, _)
rule_is_used(variables, rule) ==
    \E i \in 1..Len(variables) :
        CASE rule.type = "NamedSymbol" -> variables[i].name = rule.name
          [] rule.type = "Choice" ->
                \E k \in 1..Len(rule.members) : rule_is_used(variables, rule.members[k])
          [] rule.type = "Metadata" -> rule_is_used(variables, rule.members[1])
          [] rule.type = "Repeat" -> rule_is_used(variables, rule.members[1])
          [] rule.type = "Seq" ->
                \E k \in 1..Len(rule.members) : rule_is_used(variables, rule.members[k])
          [] OTHER -> FALSE

(***************************************************************************)
(* The HashMap `to_remove` (grammars.rs:60-66): one entry (name, index)    *)
(* per variable whose own rule is not "used".  A HashMap keeps its entries *)
(* in an order fixed by the hasher's per-process random seed, so the map   *)
(* is modelled as a sequence of entries in any order.                      *)
(***************************************************************************)
to_remove_entries(variables) ==
    {<<variables[i].name, i>> : i \in {k \in 1..Len(variables) :
                                        ~rule_is_used(variables, variables[k].rule)}}

HashLayouts(entries) ==
    {layout \in [1..Cardinality(entries) -> entries] :
        \A a, b \in 1..Cardinality(entries) : a # b => layout[a] # layout[b]}

ContainsKeyFirstOnly(to_remove, name) ==
    Len(to_remove) > 0 /\ to_remove[1][1] = name

contains_key(to_remove, name) ==
    \E k \in 1..Len(to_remove) : to_remove[k][1] = name

RetainedRule(to_remove, r) ==
    IF r.type \in {"NamedSymbol", "String"} THEN ~contains_key(to_remove, r.name) ELSE TRUE

(***************************************************************************)
(* InputGrammar::remove_unused_rules (grammars.rs:59-91), given the        *)
(* HashMap built by its first loop.  Vec::retain keeps, in order, the      *)
(* elements satisfying the predicate: SelectSeq.                           *)
(***************************************************************************)
remove_unused_rules(g, to_remove) ==
    LET KeepVar(v) == ~contains_key(to_remove, v.name)
        KeepRule(r) == RetainedRule(to_remove, r)
        KeepName(n) == ~contains_key(to_remove, n)
    IN  [variables |-> SelectSeq(g.variables, KeepVar),
         extra_symbols |-> SelectSeq(g.extra_symbols, KeepRule),
         external_tokens |-> SelectSeq(g.external_tokens, KeepRule),
         variables_to_inline |-> SelectSeq(g.variables_to_inline, KeepName),
         supertype_symbols |-> SelectSeq(g.supertype_symbols, KeepName)]

(***************************************************************************)
(* Each specification below drives one part of the program; the state of   *)
(* the other parts stays as constructed.                                   *)
(***************************************************************************)
IdleGrammar ==
    /\ input = InputGrammar(<<>>, <<>>)
    /\ grammar = input
    /\ prev = input
    /\ calls = 0
    /\ compiled = <<>>

IdleLexical ==
    /\ start_states = <<>>
    /\ state_id = 0
    /\ owner = [status |-> "none", index |-> 0]

IdlePipeline ==
    /\ crate = "generate"
    /\ grammar_path = "None"
    /\ dir_empty = FALSE
    /\ generate_bindings = FALSE
    /\ pc = "idle"
    /\ error = "none"
    /\ completed = <<>>
    /\ written = <<>>

\* No decision taken (yet).
NoResolution ==
    [outcome |-> "Pending", winner |-> 0, state |-> 0, symbol |-> "",
     candidates |-> <<>>]

IdleConflict ==
    /\ conflict = [state |-> 0, symbol |-> "", candidates |-> <<>>,
                   associativity |-> "Unset", expected |-> FALSE]
    /\ criterion = "idle"
    /\ consulted = <<>>
    /\ resolution = NoResolution
    /\ before = [resolution |-> NoResolution, raised |-> 0]

IdleInline ==
    /\ syntax = [productions |-> <<>>, variables_to_inline |-> {}]
    /\ expansion = <<>>
    /\ inlining = "idle"

IdleBuilder == IdleConflict /\ IdleInline

IdleVisitor ==
    /\ tree = <<0>>
    /\ cursor = 1
    /\ traversed = FALSE
    /\ at = "idle"
    /\ events = <<>>

IdleFormat ==
    /\ flags_text = <<>>
    /\ outputs = <<>>

IdleCollect ==
    /\ paths_file = <<>>
    /\ paths = <<>>
    /\ inputs = <<>>
    /\ next_snippet = FALSE
    /\ remaining = <<>>
    /\ collecting = "idle"
    /\ collected = [ok |-> FALSE, error |-> "not called"]

IdleScope ==
    /\ occurrences = <<>>
    /\ next_input = 0
    /\ limit_ranges = <<>>
    /\ parsed = "not called"

IdleEncoding ==
    /\ source_code = <<>>
    /\ encoding = "UTF8"
    /\ bom_len = 0
    /\ decoding = "idle"

IdleEdit ==
    /\ edit_source = <<>>
    /\ edit_offset = 0
    /\ edit_probe = [row |-> 0, column |-> 0]
    /\ edit_position = <<>>
    /\ edit_found = <<>>
    /\ probe_found = <<>>

IdleSearch ==
    /\ parse_result = <<>>
    /\ options = [print_time |-> FALSE, cst_output |-> FALSE]
    /\ search_cursor = 1
    /\ first_error = <<>>
    /\ reported = <<>>
    /\ searching = "idle"
    /\ search_result = "not called"

IdleParse == IdleEncoding /\ IdleEdit /\ IdleSearch

IdleCli == IdleVisitor /\ IdleFormat /\ IdleCollect /\ IdleScope /\ IdleParse

(***************************************************************************)
(* The specification of repeated remove_unused_rules calls on one grammar. *)
(***************************************************************************)
InitGrammar ==
    /\ IsInputGrammar(input, MaxVars)
    /\ grammar = input
    /\ prev = input
    /\ calls = 0
    /\ compiled = <<>>
    /\ IdleLexical
    /\ IdlePipeline
    /\ IdleBuilder
    /\ IdleCli

RemoveUnusedRules ==
    /\ calls < MaxCalls
    /\ \E to_remove \in HashLayouts(to_remove_entries(grammar.variables)) :
          grammar' = remove_unused_rules(grammar, to_remove)
    /\ prev' = grammar
    /\ calls' = calls + 1
    /\ UNCHANGED <<input, compiled, lexVars, pipelineVars, builderVars, cliVars>>

NextGrammar == RemoveUnusedRules

SpecGrammar == InitGrammar /\ [][NextGrammar]_vars

(***************************************************************************)
(* Symbol resolution, the first step of prepare_grammar (called at         *)
(* lib.rs:123-124; its body is outside the sources at hand and follows the *)
(* design description): every NamedSymbol must name a variable, an         *)
(* external token or an extra, else UndefinedSymbol(name); a grammar       *)
(* without variables is the taxonomy's EmptyGrammar.                       *)
(***************************************************************************)
RECURSIVE Flatten(_)
Flatten(seqs) ==
    IF seqs = <<>> THEN <<>> ELSE Head(seqs) \o Flatten(Tail(seqs))

\* The names a rule references, in the order a pre-order walk meets them.
RECURSIVE NamedSymbolsOf(_)
NamedSymbolsOf(rule) ==
    IF rule.type = "NamedSymbol" THEN <<rule.name>>
    ELSE Flatten([k \in 1..Len(rule.members) |-> NamedSymbolsOf(rule.members[k])])

References(g) ==
    Flatten([i \in 1..Len(g.variables) |-> NamedSymbolsOf(g.variables[i].rule)])

RuleListNames(rules) ==
    {rules[k].name : k \in {j \in 1..Len(rules) : rules[j].type = "NamedSymbol"}}

ResolvableNames(g) ==
    {g.variables[i].name : i \in 1..Len(g.variables)}
    \cup RuleListNames(g.external_tokens)
    \cup RuleListNames(g.extra_symbols)

UndefinedReferences(g) ==
    SelectSeq(References(g), LAMBDA n : n \notin ResolvableNames(g))

prepare_grammar(g) ==
    IF UndefinedReferences(g) # <<>>
    THEN [outcome |-> "UndefinedSymbol", symbol |-> Head(UndefinedReferences(g))]
    ELSE IF g.variables = <<>>
    THEN [outcome |-> "EmptyGrammar", symbol |-> ""]
    ELSE [outcome |-> "Ok", symbol |-> ""]

(***************************************************************************)
(* parse_grammar (called at lib.rs:112; body outside the sources at hand): *)
(* the Loader/Normalizer decodes the document into an InputGrammar and     *)
(* prunes it with remove_unused_rules.                                     *)
(***************************************************************************)
parse_grammar(document, to_remove) == remove_unused_rules(document, to_remove)

(***************************************************************************)
(* The stages behind prepare_grammar's symbol resolution are pure          *)
(* functions of their arguments in the design description; each is kept    *)
(* as a tagged value of what it is given.                                  *)
(***************************************************************************)
build_tables(syntax_grammar) == <<"tables", syntax_grammar>>
render_c_code(name, tables) == <<"parser.c", name, tables>>
generate_node_types_json(syntax_grammar) == <<"node-types.json", syntax_grammar>>

(***************************************************************************)
(* generate_parser_for_grammar (lib.rs:110-116) with                       *)
(* generate_parser_for_grammar_with_opts (lib.rs:118-153): the `?` after   *)
(* prepare_grammar returns its error, otherwise the stages run in order.   *)
(***************************************************************************)
generate_parser_for_grammar(document, to_remove) ==
    LET input_grammar == parse_grammar(document, to_remove)
        prepared == prepare_grammar(input_grammar)
    IN  IF prepared.outcome # "Ok"
        THEN [input_grammar |-> input_grammar, outcome |-> prepared.outcome,
              symbol |-> prepared.symbol, c_code |-> <<>>, node_types_json |-> <<>>]
        ELSE [input_grammar |-> input_grammar, outcome |-> "Ok", symbol |-> "",
              c_code |-> render_c_code("grammar", build_tables(input_grammar.variables)),
              node_types_json |-> generate_node_types_json(input_grammar.variables)]

InitCompile ==
    /\ IsInputGrammar(input, MaxVars)
    /\ grammar = input
    /\ prev = input
    /\ calls = 0
    /\ compiled = <<>>
    /\ IdleLexical
    /\ IdlePipeline
    /\ IdleBuilder
    /\ IdleCli

\* One run of the compiler on the document; every run builds its own HashMap.
GenerateParserForGrammar ==
    /\ Len(compiled) < MaxRuns
    /\ \E to_remove \in HashLayouts(to_remove_entries(input.variables)) :
          compiled' = Append(compiled, generate_parser_for_grammar(input, to_remove))
    /\ UNCHANGED <<input, grammar, prev, calls, lexVars, pipelineVars, builderVars, cliVars>>

NextCompile == GenerateParserForGrammar

SpecCompile == InitCompile /\ [][NextCompile]_vars

(***************************************************************************)
(* Vocabulary of the properties: reachability from the start symbol along  *)
(* NamedSymbol references, and names that resolve.                         *)
(***************************************************************************)
VariableNames(g) == {g.variables[i].name : i \in 1..Len(g.variables)}

Range(seq) == {seq[k] : k \in 1..Len(seq)}

ReferencedBy(g, names) ==
    UNION {Range(NamedSymbolsOf(g.variables[i].rule)) \cap VariableNames(g) :
            i \in {k \in 1..Len(g.variables) : g.variables[k].name \in names}}

RECURSIVE ReachableFrom(_, _)
ReachableFrom(g, names) ==
    IF ReferencedBy(g, names) \subseteq names THEN names
    ELSE ReachableFrom(g, names \cup ReferencedBy(g, names))

Reachable(g) ==
    IF g.variables = <<>> THEN {} ELSE ReachableFrom(g, {g.variables[1].name})

NoDanglingName(g) ==
    /\ Range(References(g)) \subseteq ResolvableNames(g)
    /\ RuleListNames(g.extra_symbols) \subseteq VariableNames(g) \cup RuleListNames(g.external_tokens)
    /\ Range(g.variables_to_inline) \subseteq ResolvableNames(g)
    /\ Range(g.supertype_symbols) \subseteq ResolvableNames(g)

\* C1: after remove_unused_rules the variable list is exactly the set of
\* variables reachable from variable 0 through NamedSymbol references
\* (checked on grammars in which every name resolves).
C1_VariablesAreTheReachableSet ==
    (calls = 1 /\ NoDanglingName(input)) => VariableNames(grammar) = Reachable(input)

\* C2: every variable that survives remove_unused_rules is reachable from the
\* start symbol; no unreachable variable survives (checked on grammars in
\* which every name resolves).
C2_SurvivorsAreReachable ==
    (calls = 1 /\ NoDanglingName(input)) =>
        VariableNames(grammar) \subseteq Reachable(input)

\* C3: after remove_unused_rules no dangling name survives (checked on
\* grammars in which every name resolved before the call).
C3_NoDanglingNameSurvives ==
    (calls = 1 /\ NoDanglingName(input)) => NoDanglingName(grammar)

\* C4: one call of remove_unused_rules reaches the fixed point: a second
\* call on its own result removes nothing more (checked on grammars in which
\* every name resolves).
C4_SecondCallRemovesNothing ==
    (calls = 2 /\ NoDanglingName(input)) => grammar = prev

\* C5: normalization never returns an InputGrammar whose variable list is
\* empty (remove_unused_rules returns (), so every return is a success);
\* checked on the first call, on grammars in which every name resolves.
C5_NeverReturnsEmptyVariableList ==
    (calls = 1 /\ NoDanglingName(input)) => grammar.variables # <<>>

\* The undefined names referenced from rules reachable from the start symbol.
ReachableUndefinedReferences(g) ==
    UNION {Range(NamedSymbolsOf(g.variables[i].rule)) \ ResolvableNames(g) :
            i \in {k \in 1..Len(g.variables) : g.variables[k].name \in Reachable(g)}}

\* C6: compiling a grammar in which some rule references a name that matches
\* no variable, external token or extra fails with UndefinedSymbol carrying
\* that name (checked where the referencing rule is reachable from the start
\* symbol and the pruned grammar keeps a variable).
C6_UndefinedReferenceIsReported ==
    \A r \in 1..Len(compiled) :
        (/\ ReachableUndefinedReferences(input) # {}
         /\ compiled[r].input_grammar.variables # <<>>) =>
            /\ compiled[r].outcome = "UndefinedSymbol"
            /\ compiled[r].symbol \in ReachableUndefinedReferences(input)

PositionStrictlyGreater(states, id) ==
    IF \E i \in 1..Len(states) : states[i] > id
    THEN [status |-> "returned",
          index |-> (CHOOSE i \in 1..Len(states) :
                        states[i] > id /\ \A j \in 1..(i - 1) : ~(states[j] > id)) - 1]
    ELSE [status |-> "panicked", index |-> 0]

variable_index_for_nfa_state(states, id) ==
    IF \E i \in 1..Len(states) : states[i] >= id
    THEN [status |-> "returned",
          index |-> (CHOOSE i \in 1..Len(states) :
                        states[i] >= id /\ \A j \in 1..(i - 1) : ~(states[j] >= id)) - 1]
    ELSE [status |-> "panicked", index |-> 0]

\* The start states of a lexical grammar: each variable's start_state lies
\* beyond the states of the variables before it (grammars.rs:96-108).
StrictlyIncreasing(states) ==
    \A i \in 1..(Len(states) - 1) : states[i] < states[i + 1]

InitLexical ==
    /\ \E n \in 1..MaxLexVars :
          \E states \in [1..n -> 0..MaxStateId] :
              StrictlyIncreasing(states) /\ start_states = states
    /\ state_id = 0
    /\ owner = [status |-> "none", index |-> 0]
    /\ IdleGrammar
    /\ IdlePipeline
    /\ IdleBuilder
    /\ IdleCli

VariableIndexForNfaState ==
    /\ \E id \in 0..MaxStateId :
          /\ state_id' = id
          /\ owner' = variable_index_for_nfa_state(start_states, id)
    /\ UNCHANGED <<start_states, grammarVars, pipelineVars, builderVars, cliVars>>

NextLexical == VariableIndexForNfaState

SpecLexical == InitLexical /\ [][NextLexical]_vars

\* A binary search for the first index whose start_state is >= id, on the
\* 0-based half-open index range [lo, hi).
RECURSIVE BinarySearch(_, _, _, _)
BinarySearch(states, id, lo, hi) ==
    IF lo >= hi THEN lo
    ELSE LET mid == (lo + hi) \div 2
         IN  IF states[mid + 1] < id
             THEN BinarySearch(states, id, mid + 1, hi)
             ELSE BinarySearch(states, id, lo, mid)

\* C7: for strictly increasing start_state values and a state id not greater
\* than the last start_state, variable_index_for_nfa_state returns the unique
\* index i with start_state[i-1] < id <= start_state[i], which is the owner
\* a binary search over the start_state sequence finds.
C7_OwnerIsTheCoveringVariable ==
    (owner.status # "none" /\ state_id <= start_states[Len(start_states)]) =>
        /\ owner.status = "returned"
        /\ owner.index \in 0..(Len(start_states) - 1)
        /\ state_id <= start_states[owner.index + 1]
        /\ owner.index > 0 => start_states[owner.index] < state_id
        /\ \A i \in 0..(Len(start_states) - 1) :
              (/\ state_id <= start_states[i + 1]
               /\ i > 0 => start_states[i] < state_id) => i = owner.index
        /\ owner.index = BinarySearch(start_states, state_id, 0, Len(start_states))

\* A lookup of a state id that is the start state of a variable other than
\* the first, in a grammar of three variables or more.
C7_Witness ==
    /\ owner.status = "returned"
    /\ Len(start_states) >= 3
    /\ owner.index \in 1..(Len(start_states) - 1)
    /\ state_id = start_states[owner.index + 1]

(***************************************************************************)
(* generate_parser_in_directory: cli/generate/src/lib.rs:45-108 (crate     *)
(* "generate") and cli/src/generate/mod.rs:41-103 (crate "cli"), with      *)
(* generate_parser_for_grammar_with_opts (lib.rs:118-153, mod.rs:176-216). *)
(* Every call that can fail is followed by `?`: an Err is returned at      *)
(* once.  Whether a call fails is up to the document and the file system,  *)
(* so both results are possible at every fallible call.                    *)
(***************************************************************************)
Results == {"Ok", "Err"}

\* The `?` operator without its early return.
QuestionMarkIgnored(result, next) == next

\* The `?` operator: where control goes after a call that gave `result`.
QuestionMark(result, next) == IF result = "Err" THEN "failed" ELSE next

\* The statement order with render_c_code and build_tables exchanged.
StagesRenderFirst ==
    <<"parse_grammar", "prepare_grammar", "get_variable_info",
      "generate_node_types_json", "render_c_code", "build_tables",
      "to_string_pretty">>

\* The compilation calls in statement order (lib.rs:93, 123-152;
\* mod.rs:75-77, 185-215).
Stages ==
    <<"parse_grammar", "prepare_grammar", "get_variable_info",
      "generate_node_types_json", "build_tables", "render_c_code",
      "to_string_pretty">>

StageIndex(stage) == CHOOSE i \in 1..Len(Stages) : Stages[i] = stage

StatementAfter(stage) ==
    IF StageIndex(stage) < Len(Stages) THEN Stages[StageIndex(stage) + 1]
    ELSE "write_file"

\* The files written once the parser has been generated (lib.rs:101-105,
\* mod.rs:94-96).
OutputFiles(c) ==
    IF c = "generate"
    THEN <<"parser.c", "node-types.json", "alloc.h", "array.h", "parser.h">>
    ELSE <<"parser.c", "node-types.json", "parser.h">>

AllOutputFiles == Range(OutputFiles("generate")) \cup Range(OutputFiles("cli"))

OutputsWritten == Cardinality(Range(written) \cap AllOutputFiles)

\* lib.rs:87: grammar_path.file_name() != "grammar.json"; mod.rs:69:
\* grammar_path.is_none().
WritesGrammarJson ==
    IF crate = "generate" THEN grammar_path # "grammar.json"
    ELSE grammar_path = "None"

InitPipeline ==
    /\ crate \in {"generate", "cli"}
    /\ grammar_path \in {"None", "grammar.json", "grammar.js", "missing"}
    /\ dir_empty \in BOOLEAN
    /\ generate_bindings \in BOOLEAN
    /\ crate = "generate" => (~generate_bindings /\ ~dir_empty)
    /\ pc = IF crate = "generate" THEN "populate" ELSE "generate_skel"
    /\ error = "none"
    /\ completed = <<>>
    /\ written = <<>>
    /\ IdleGrammar
    /\ IdleLexical
    /\ IdleBuilder
    /\ IdleCli

Inputs == <<crate, dir_empty, generate_bindings>>

\* lib.rs:57-68: a grammar path that does not exist yet ("missing") becomes
\* the new grammar directory, and grammar_path becomes None ("new_dir": the
\* default grammar.js of a directory that was just created).
PopulateDirectory ==
    /\ pc = "populate"
    /\ \E result \in Results :
          /\ pc' = QuestionMark(IF grammar_path = "None" THEN "Ok" ELSE result,
                                "load_grammar_file")
          /\ error' = IF pc' = "failed" THEN "io" ELSE error
    /\ grammar_path' = IF grammar_path = "missing" /\ pc' # "failed" THEN "new_dir"
                       ELSE grammar_path
    /\ UNCHANGED <<Inputs, completed, written, grammarVars, lexVars, builderVars, cliVars>>

SkeletonFiles ==
    (IF grammar_path = "None" THEN <<"grammar.js">> ELSE <<>>) \o <<".gitignore">>

\* mod.rs:49-51, 105-157: an empty directory gets a grammar.js template
\* (without a custom grammar path) and a .gitignore; a failure at any point
\* is only warned of.
GenerateSkelInEmptyDir ==
    /\ pc = "generate_skel"
    /\ \E n \in 0..Len(SkeletonFiles) :
          written' = IF dir_empty THEN SubSeq(SkeletonFiles, 1, n) ELSE written
    /\ pc' = "load_grammar_file"
    /\ UNCHANGED <<Inputs, grammar_path, error, completed, grammarVars, lexVars, builderVars, cliVars>>

\* The grammar file to load does not exist.
GrammarFileMissing ==
    \/ grammar_path \in {"missing", "new_dir"}
    \/ dir_empty /\ grammar_path = "None" /\ "grammar.js" \notin Range(written)

\* lib.rs:73-78, mod.rs:57-63.
LoadGrammarFile ==
    /\ pc = "load_grammar_file"
    /\ \E result \in Results :
          /\ GrammarFileMissing => result = "Err"
          /\ pc' = QuestionMark(result, "create_dir_all")
          /\ error' = IF pc' = "failed" THEN "io" ELSE error
    /\ UNCHANGED <<Inputs, grammar_path, completed, written, grammarVars, lexVars, builderVars, cliVars>>

\* lib.rs:84-90, mod.rs:66-72: the output directories, then grammar.json.
CreateDirAll ==
    /\ pc = "create_dir_all"
    /\ \E result \in Results :
          /\ pc' = QuestionMark(result, IF WritesGrammarJson THEN "write_grammar_json"
                                        ELSE "parse_grammar")
          /\ error' = IF pc' = "failed" THEN "io" ELSE error
    /\ UNCHANGED <<Inputs, grammar_path, completed, written, grammarVars, lexVars, builderVars, cliVars>>

WriteGrammarJson ==
    /\ pc = "write_grammar_json"
    /\ \E result \in Results :
          /\ pc' = QuestionMark(result, "parse_grammar")
          /\ error' = IF pc' = "failed" THEN "io" ELSE error
          /\ written' = IF result = "Ok" THEN Append(written, "grammar.json") ELSE written
    /\ UNCHANGED <<Inputs, grammar_path, completed, grammarVars, lexVars, builderVars, cliVars>>

\* A compilation call that returns a Result and is followed by `?`.
FallibleStage(stage) ==
    \E result \in Results :
        /\ pc' = QuestionMark(result, StatementAfter(stage))
        /\ error' = IF result = "Err" THEN stage ELSE error
        /\ completed' = IF result = "Ok" THEN Append(completed, stage) ELSE completed
        /\ UNCHANGED <<Inputs, grammar_path, written, grammarVars, lexVars, builderVars, cliVars>>

\* A compilation call that cannot fail.
InfallibleStage(stage) ==
    /\ pc' = StatementAfter(stage)
    /\ completed' = Append(completed, stage)
    /\ UNCHANGED <<Inputs, grammar_path, error, written, grammarVars, lexVars, builderVars, cliVars>>

\* lib.rs:93, mod.rs:75.
ParseGrammar ==
    /\ pc = "parse_grammar"
    /\ FallibleStage("parse_grammar")

\* lib.rs:123-124, mod.rs:76-77.
PrepareGrammar ==
    /\ pc = "prepare_grammar"
    /\ FallibleStage("prepare_grammar")

\* lib.rs:125-126, mod.rs:185-186.
GetVariableInfo ==
    /\ pc = "get_variable_info"
    /\ FallibleStage("get_variable_info")

\* lib.rs:127-132, mod.rs:187-192.
GenerateNodeTypesJson ==
    /\ pc = "generate_node_types_json"
    /\ InfallibleStage("generate_node_types_json")

\* lib.rs:133-140, mod.rs:193-200.
BuildTables ==
    /\ pc = "build_tables"
    /\ FallibleStage("build_tables")

\* lib.rs:141-148, mod.rs:201-211.
RenderCCode ==
    /\ pc = "render_c_code"
    /\ InfallibleStage("render_c_code")

\* lib.rs:149-152, mod.rs:212-215.
ToStringPretty ==
    /\ pc = "to_string_pretty"
    /\ InfallibleStage("to_string_pretty")

\* lib.rs:101-105, mod.rs:94-96: one write_file call, each followed by `?`.
WriteFile ==
    /\ pc = "write_file"
    /\ \E result \in Results :
          /\ pc' = QuestionMark(result,
                     IF OutputsWritten + 1 < Len(OutputFiles(crate)) THEN "write_file"
                     ELSE IF generate_bindings THEN "generate_binding_files"
                     ELSE "done")
          /\ error' = IF pc' = "failed" THEN "io" ELSE error
          /\ written' = IF result = "Ok"
                        THEN Append(written, OutputFiles(crate)[OutputsWritten + 1])
                        ELSE written
    /\ UNCHANGED <<Inputs, grammar_path, completed, grammarVars, lexVars, builderVars, cliVars>>

\* mod.rs:98-100.
GenerateBindingFiles ==
    /\ pc = "generate_binding_files"
    /\ \E result \in Results :
          /\ pc' = QuestionMark(result, "done")
          /\ error' = IF pc' = "failed" THEN "io" ELSE error
          /\ written' = IF result = "Ok" THEN Append(written, "bindings") ELSE written
    /\ UNCHANGED <<Inputs, grammar_path, completed, grammarVars, lexVars, builderVars, cliVars>>

NextPipeline ==
    \/ PopulateDirectory
    \/ GenerateSkelInEmptyDir
    \/ LoadGrammarFile
    \/ CreateDirAll
    \/ WriteGrammarJson
    \/ ParseGrammar
    \/ PrepareGrammar
    \/ GetVariableInfo
    \/ GenerateNodeTypesJson
    \/ BuildTables
    \/ RenderCCode
    \/ ToStringPretty
    \/ WriteFile
    \/ GenerateBindingFiles

SpecPipeline == InitPipeline /\ [][NextPipeline]_vars

FallibleStages == {"parse_grammar", "prepare_grammar", "get_variable_info", "build_tables"}

\* C8: if a stage of compilation returns an error, none of parser.c,
\* node-types.json and the header files is written; these files are written
\* only after both the C code and the node-types JSON have been produced.
C8_NoOutputAfterStageError ==
    /\ error \in FallibleStages =>
          /\ pc = "failed"
          /\ Range(written) \cap AllOutputFiles = {}
    /\ Range(written) \cap AllOutputFiles # {} =>
          /\ error \notin FallibleStages
          /\ {"render_c_code", "to_string_pretty"} \subseteq Range(completed)

\* build_tables has returned an error after grammar.json was written: the
\* run has ended and no output file exists.
C8_Witness ==
    /\ pc = "failed"
    /\ error = "build_tables"
    /\ written # <<>>
    /\ written[Len(written)] = "grammar.json"

\* The components of the design the stages belong to, in pipeline order.
Component(stage) ==
    CASE stage = "parse_grammar" -> 1
      [] stage = "prepare_grammar" -> 2
      [] stage \in {"get_variable_info", "build_tables"} -> 3
      [] OTHER -> 4

\* C9 as stated: no stage starts before the preceding one has completed, and
\* both rendered artifacts (parser source, node-types manifest) are produced
\* only after table construction has finished.
C9_ArtifactsOnlyAfterTables ==
    \A stage \in Range(completed) :
        Component(stage) = 4 => "build_tables" \in Range(completed)

\* C9 as amended: the calls complete in statement order, none starting
\* before the one before it returned Ok; the parser source and the
\* serialized node-types text are produced only after build_tables, while
\* the node-types data is generated after get_variable_info, before
\* build_tables.
C9_StagesInStatementOrder ==
    /\ Len(completed) <= 7
    /\ completed = [i \in 1..Len(completed) |->
          <<"parse_grammar", "prepare_grammar", "get_variable_info",
            "generate_node_types_json", "build_tables", "render_c_code",
            "to_string_pretty">>[i]]
    /\ pc \in Range(Stages) => Len(completed) = StageIndex(pc) - 1
    /\ pc \in {"write_file", "generate_binding_files", "done"} => Len(completed) = 7

\* The node-types data has been generated and build_tables has then failed.
C9_Witness ==
    /\ pc = "failed"
    /\ error = "build_tables"
    /\ completed = <<"parse_grammar", "prepare_grammar", "get_variable_info",
                     "generate_node_types_json">>

(***************************************************************************)
(* Conflict resolution of the Parse Table Builder (build_tables, called at *)
(* lib.rs:133-140; its body is outside the sources at hand and follows     *)
(* section 4.4 of the design description).  A conflict has two candidate   *)
(* actions on one lookahead symbol in one state.  Each candidate carries   *)
(* the static precedence of its step (ProductionStep.precedence,           *)
(* grammars.rs:115) and the dynamic_precedence of its production           *)
(* (Production.dynamic_precedence, grammars.rs:124); the conflict carries   *)
(* the declared associativity (ProductionStep.associativity,               *)
(* grammars.rs:116) and whether expected_conflicts covers it               *)
(* (SyntaxGrammar.expected_conflicts, grammars.rs:151).                    *)
(***************************************************************************)
MaxPrecedence == 1
MaxDynamicPrecedence == 2

Candidate(action, precedence, dynamic_precedence) ==
    [action |-> action, precedence |-> precedence,
     dynamic_precedence |-> dynamic_precedence]

Associativities == {"Left", "Right", "NonAssoc", "Unset"}

\* A shift/reduce conflict lists the shift first; a reduce/reduce conflict
\* holds two reductions.
IsConflict(c) ==
    \E first \in {"shift", "reduce"}, p1, p2 \in 0..MaxPrecedence,
       d1, d2 \in 0..MaxDynamicPrecedence, assoc \in Associativities,
       exp \in BOOLEAN, st \in 0..1 :
        c = [state |-> st, symbol |-> "else",
             candidates |-> <<Candidate(first, p1, d1), Candidate("reduce", p2, d2)>>,
             associativity |-> assoc, expected |-> exp]

\* The criteria with associativity consulted before dynamic precedence.
CriteriaAssociativityFirst ==
    <<"expected_conflicts", "precedence", "associativity", "dynamic_precedence",
      "unresolved">>

\* The criteria in the order of section 4.4, (1) to (5).
Criteria ==
    <<"expected_conflicts", "precedence", "dynamic_precedence", "associativity",
      "unresolved">>

CriterionAfter(c) ==
    Criteria[(CHOOSE i \in 1..Len(Criteria) : Criteria[i] = c) + 1]

\* The candidate with the lower value wins.
LowerWins(x, y) == IF x < y THEN 1 ELSE IF y < x THEN 2 ELSE 0

\* "higher wins": the index of the candidate with the higher value, 0 on a tie.
HigherWins(x, y) == IF x > y THEN 1 ELSE IF y > x THEN 2 ELSE 0

\* An unset associativity read as a default direction: shift.
AssociativityDefaultsToShift(c) ==
    IF c.candidates[1].action # "shift" THEN 0
    ELSE IF c.associativity = "Left" THEN 2 ELSE 1

\* "left associates to reduce, right to shift": the index of the candidate
\* the declared associativity picks in a shift/reduce conflict, 0 when it
\* picks none.
AssociativityPicks(c) ==
    IF c.candidates[1].action # "shift" THEN 0
    ELSE IF c.associativity = "Left" THEN 2
    ELSE IF c.associativity = "Right" THEN 1
    ELSE 0

Resolved(c, winner) ==
    [outcome |-> "Resolved", winner |-> winner, state |-> c.state,
     symbol |-> c.symbol, candidates |-> c.candidates]

InitConflict ==
    /\ IsConflict(conflict)
    /\ criterion = "expected_conflicts"
    /\ consulted = <<>>
    /\ resolution = NoResolution
    /\ before = [resolution |-> NoResolution, raised |-> 0]
    /\ IdleGrammar
    /\ IdleLexical
    /\ IdlePipeline
    /\ IdleInline
    /\ IdleCli

\* The outcome of consulting a criterion that gave `winner` (0: a tie).
Decide(winner) ==
    /\ consulted' = Append(consulted, criterion)
    /\ criterion' = IF winner = 0 THEN CriterionAfter(criterion) ELSE "done"
    /\ resolution' = IF winner = 0 THEN resolution ELSE Resolved(conflict, winner)
    /\ UNCHANGED <<conflict, before, grammarVars, lexVars, pipelineVars, inlineVars,
                   cliVars>>

\* (1) a conflict covered by expected_conflicts is kept for the runtime.
ConsultExpectedConflicts ==
    /\ criterion = "expected_conflicts"
    /\ consulted' = Append(consulted, criterion)
    /\ criterion' = IF conflict.expected THEN "done" ELSE CriterionAfter(criterion)
    /\ resolution' = IF conflict.expected
                     THEN [outcome |-> "Kept", winner |-> 0, state |-> conflict.state,
                           symbol |-> conflict.symbol,
                           candidates |-> conflict.candidates]
                     ELSE resolution
    /\ UNCHANGED <<conflict, before, grammarVars, lexVars, pipelineVars, inlineVars,
                   cliVars>>

\* (2) static Precedence on the relevant steps: higher wins.
ComparePrecedence ==
    /\ criterion = "precedence"
    /\ Decide(HigherWins(conflict.candidates[1].precedence,
                         conflict.candidates[2].precedence))

\* (3) dynamic_precedence on the candidate productions: higher wins.
CompareDynamicPrecedence ==
    /\ criterion = "dynamic_precedence"
    /\ Decide(HigherWins(conflict.candidates[1].dynamic_precedence,
                         conflict.candidates[2].dynamic_precedence))

\* (4) declared Associativity.
ApplyAssociativity ==
    /\ criterion = "associativity"
    /\ Decide(AssociativityPicks(conflict))

\* (5) still unresolved and not declared expected.
FailUnresolvedConflict ==
    /\ criterion = "unresolved"
    /\ consulted' = Append(consulted, criterion)
    /\ criterion' = "done"
    /\ resolution' = [outcome |-> "UnresolvedConflict", winner |-> 0,
                      state |-> conflict.state, symbol |-> conflict.symbol,
                      candidates |-> conflict.candidates]
    /\ UNCHANGED <<conflict, before, grammarVars, lexVars, pipelineVars, inlineVars,
                   cliVars>>

\* The grammar author raises the dynamic_precedence of the production of
\* candidate k, and the conflict is resolved again.
RaiseDynamicPrecedence ==
    /\ criterion = "done"
    /\ \E k \in 1..2 :
          /\ conflict.candidates[k].dynamic_precedence < MaxDynamicPrecedence
          /\ conflict' = [conflict EXCEPT !.candidates[k].dynamic_precedence = @ + 1]
          /\ before' = [resolution |-> resolution, raised |-> k]
    /\ criterion' = "expected_conflicts"
    /\ consulted' = <<>>
    /\ resolution' = NoResolution
    /\ UNCHANGED <<grammarVars, lexVars, pipelineVars, inlineVars, cliVars>>

NextConflict ==
    \/ ConsultExpectedConflicts
    \/ ComparePrecedence
    \/ CompareDynamicPrecedence
    \/ ApplyAssociativity
    \/ FailUnresolvedConflict
    \/ RaiseDynamicPrecedence

SpecConflict == InitConflict /\ [][NextConflict]_vars

StaticTie == conflict.candidates[1].precedence = conflict.candidates[2].precedence

DynamicTie ==
    conflict.candidates[1].dynamic_precedence = conflict.candidates[2].dynamic_precedence

StillTied ==
    /\ StaticTie
    /\ DynamicTie
    /\ ~(conflict.candidates[1].action = "shift"
          /\ conflict.associativity \in {"Left", "Right"})

\* C12: a conflict still tied after static precedence, dynamic precedence and
\* associativity (unset and non-assoc included) fails with UnresolvedConflict
\* naming the state, symbol and candidates, unless expected_conflicts covers
\* it, in which case compilation succeeds; an undeclared conflict is never
\* resolved by a default direction.
C12_TiedConflictIsUnresolved ==
    criterion = "done" =>
        /\ conflict.expected => resolution.outcome = "Kept"
        /\ (~conflict.expected /\ StillTied) =>
              resolution = [outcome |-> "UnresolvedConflict", winner |-> 0,
                            state |-> conflict.state, symbol |-> conflict.symbol,
                            candidates |-> conflict.candidates]
        /\ resolution.outcome = "Resolved" => ~conflict.expected /\ ~StillTied
        /\ resolution.outcome \in {"Kept", "Resolved", "UnresolvedConflict"}

\* A shift/reduce conflict with equal precedences and no associativity set
\* has ended in UnresolvedConflict.
C12_Witness ==
    /\ criterion = "done"
    /\ resolution.outcome = "UnresolvedConflict"
    /\ conflict.candidates[1].action = "shift"
    /\ conflict.associativity = "Unset"
    /\ consulted[Len(consulted)] = "unresolved"

\* C13: with static precedences equal, raising the dynamic_precedence of a
\* production never turns a conflict resolved in that production's favour
\* into one resolved in favour of its competitor.
C13_RaisingNeverFlips ==
    (/\ criterion = "done"
     /\ before.raised # 0
     /\ StaticTie
     /\ before.resolution.outcome = "Resolved"
     /\ before.resolution.winner = before.raised) =>
        ~(resolution.outcome = "Resolved" /\ resolution.winner # before.raised)

\* The reduction won a tied shift/reduce conflict by left associativity, its
\* dynamic_precedence was raised, and the conflict was resolved again.
C13_Witness ==
    /\ criterion = "done"
    /\ before.raised = 2
    /\ StaticTie
    /\ before.resolution.outcome = "Resolved"
    /\ before.resolution.winner = 2
    /\ conflict.candidates[1].action = "shift"
    /\ conflict.candidates[2].dynamic_precedence
         = conflict.candidates[1].dynamic_precedence + 1
    /\ resolution.outcome = "Resolved"

(***************************************************************************)
(* Inlining, a step of prepare_grammar (called at lib.rs:123-124; its body *)
(* is outside the sources at hand and follows section 4.2 of the design    *)
(* description): every step that names a symbol of variables_to_inline     *)
(* (SyntaxGrammar.variables_to_inline, grammars.rs:154) is replaced by the *)
(* productions of that symbol, whose own steps are expanded in turn.  The  *)
(* expansion keeps track of its nesting; nesting deeper than the number of *)
(* inlined symbols is the fatal CyclicInlining error.                      *)
(* A symbol is 0 for a terminal or the index of a variable; every variable *)
(* has one production, the sequence of the symbols of its steps.           *)
(***************************************************************************)
MaxInlineVars == 2

MaxExpansionDepth == MaxInlineVars + 2

ProductionUniverse(n) ==
    {<<0>>} \cup {<<sym, 0>> : sym \in 1..n}
    \cup {<<p[1], p[2]>> : p \in {q \in (1..n) \X (1..n) : q[1] < q[2]}}

IsSyntaxGrammar(g) ==
    \E n \in 1..MaxInlineVars :
        \E ps \in [1..n -> ProductionUniverse(n)], inl \in SUBSET (1..n) :
            g = [productions |-> ps, variables_to_inline |-> inl]

\* Expansion tracking switched off.
NoExpansionLimit(g) == MaxExpansionDepth + 1

\* The nesting an acyclic inline set can reach.
ExpansionLimit(g) == Cardinality(g.variables_to_inline)

Frame(variable, step) == [variable |-> variable, step |-> step]

Top == expansion[Len(expansion)]

\* The symbol of the step the innermost expansion is at; -1 past the end.
CurrentSymbol ==
    IF Top.step <= Len(syntax.productions[Top.variable])
    THEN syntax.productions[Top.variable][Top.step]
    ELSE -1

Advanced == [expansion EXCEPT ![Len(expansion)].step = @ + 1]

InitInline ==
    /\ IsSyntaxGrammar(syntax)
    /\ expansion = <<Frame(1, 1)>>
    /\ inlining = "expanding"
    /\ IdleGrammar
    /\ IdleLexical
    /\ IdlePipeline
    /\ IdleConflict
    /\ IdleCli

\* A step whose symbol is not inlined stays as it is.
KeepStep ==
    /\ inlining = "expanding"
    /\ CurrentSymbol >= 0
    /\ CurrentSymbol \notin syntax.variables_to_inline
    /\ expansion' = Advanced
    /\ UNCHANGED <<syntax, inlining, grammarVars, lexVars, pipelineVars,
                   conflictVars, cliVars>>

\* A step whose symbol is inlined is replaced by that symbol's production,
\* whose steps are expanded next.
InlineStep ==
    /\ inlining = "expanding"
    /\ CurrentSymbol \in syntax.variables_to_inline
    /\ Len(expansion) - 1 < ExpansionLimit(syntax)
    /\ Len(expansion) < MaxExpansionDepth
    /\ expansion' = Append(Advanced, Frame(CurrentSymbol, 1))
    /\ UNCHANGED <<syntax, inlining, grammarVars, lexVars, pipelineVars,
                   conflictVars, cliVars>>

\* The nesting exceeds what an acyclic inline set can reach.
FailCyclicInlining ==
    /\ inlining = "expanding"
    /\ CurrentSymbol \in syntax.variables_to_inline
    /\ Len(expansion) - 1 >= ExpansionLimit(syntax)
    /\ inlining' = "CyclicInlining"
    /\ UNCHANGED <<syntax, expansion, grammarVars, lexVars, pipelineVars,
                   conflictVars, cliVars>>

\* The innermost production is expanded: back to the production it was
\* inlined into, or on to the next variable's production, or done.
FinishProduction ==
    /\ inlining = "expanding"
    /\ CurrentSymbol = -1
    /\ IF Len(expansion) > 1
       THEN /\ expansion' = SubSeq(expansion, 1, Len(expansion) - 1)
            /\ inlining' = inlining
       ELSE IF Top.variable < Len(syntax.productions)
       THEN /\ expansion' = <<Frame(Top.variable + 1, 1)>>
            /\ inlining' = inlining
       ELSE /\ expansion' = <<>>
            /\ inlining' = "done"
    /\ UNCHANGED <<syntax, grammarVars, lexVars, pipelineVars, conflictVars,
                   cliVars>>

NextInline ==
    \/ KeepStep
    \/ InlineStep
    \/ FailCyclicInlining
    \/ FinishProduction

SpecInline == InitInline /\ [][NextInline]_vars

\* prepare_grammar runs to its return: it is not suspended midway.
SpecInlineFair == SpecInline /\ WF_vars(NextInline)

\* The inlined symbols that the production of an inlined symbol in `from`
\* has as steps.
InlinedStepsOf(g, from) ==
    {sym \in g.variables_to_inline :
        \E v \in from \cap g.variables_to_inline :
            \E k \in 1..Len(g.productions[v]) : g.productions[v][k] = sym}

RECURSIVE InlinesInto(_, _)
InlinesInto(g, reached) ==
    IF InlinedStepsOf(g, reached) \subseteq reached THEN reached
    ELSE InlinesInto(g, reached \cup InlinedStepsOf(g, reached))

\* Some symbol of variables_to_inline inlines into itself, directly or
\* through other inlined symbols.
InlinesIntoItself(g) ==
    \E sym \in g.variables_to_inline :
        sym \in InlinesInto(g, InlinedStepsOf(g, {sym}))

\* C14: inlining always terminates: when a symbol of variables_to_inline
\* inlines into itself, directly or through other inlined symbols,
\* preparation stops with the fatal CyclicInlining error instead of expanding
\* forever; for acyclic inline sets the expansion finishes.
C14_InliningTerminates ==
    /\ <>(inlining \in {"done", "CyclicInlining"})
    /\ [](inlining = "CyclicInlining" => InlinesIntoItself(syntax))
    /\ [](inlining = "done" => ~InlinesIntoItself(syntax))
    /\ [](Len(expansion) <= Cardinality(syntax.variables_to_inline) + 1)

\* Two inlined symbols inline into each other, neither into itself directly,
\* and the expansion has stopped with CyclicInlining.
C14_Witness ==
    /\ inlining = "CyclicInlining"
    /\ Len(expansion) >= 3
    /\ \A v \in syntax.variables_to_inline :
          \A k \in 1..Len(syntax.productions[v]) : syntax.productions[v][k] # v

(***************************************************************************)
(* Visitor::perform (cli/src/visitor.rs:68-100) over a TreeCursor.         *)
(* The tree is the subtree the cursor was created on.  Its nodes are       *)
(* numbered in document order from 1, the node the cursor starts on;       *)
(* tree[v] is the parent of node v, 0 for node 1.                          *)
(***************************************************************************)
MaxNodes == 4

MaxEvents == 4 * MaxNodes + 2

RECURSIVE IsAncestorOrSelf(_, _, _)
IsAncestorOrSelf(t, a, v) ==
    IF v = a THEN TRUE
    ELSE IF v <= 1 \/ t[v] >= v THEN FALSE
    ELSE IsAncestorOrSelf(t, a, t[v])

\* In document order every node follows its parent, and the node before it
\* lies in the subtree of that parent.
IsTree(t) ==
    \E n \in 1..MaxNodes :
        /\ t \in [1..n -> 0..(n - 1)]
        /\ t[1] = 0
        /\ \A v \in 2..n : t[v] >= 1 /\ IsAncestorOrSelf(t, t[v], v - 1)

Children(t, v) == {c \in 1..Len(t) : t[c] = v}

LaterSiblings(t, v) == {c \in 1..Len(t) : c > v /\ t[c] = t[v] /\ v # 1}

Min(set) == CHOOSE x \in set : \A y \in set : x <= y

\* TreeCursor::goto_first_child, goto_next_sibling and goto_parent move the
\* cursor and return true, or return false and leave it where it is; the
\* cursor never leaves the subtree it was created on.
goto_first_child(t, c) ==
    IF Children(t, c) # {} THEN [moved |-> TRUE, cursor |-> Min(Children(t, c))]
    ELSE [moved |-> FALSE, cursor |-> c]

goto_next_sibling(t, c) ==
    IF LaterSiblings(t, c) # {} THEN [moved |-> TRUE, cursor |-> Min(LaterSiblings(t, c))]
    ELSE [moved |-> FALSE, cursor |-> c]

goto_parent(t, c) ==
    IF c # 1 THEN [moved |-> TRUE, cursor |-> t[c]]
    ELSE [moved |-> FALSE, cursor |-> c]

\* c.traversed left false on the return to a parent.
TraversedForgetsParent(branch) == branch = "leaf"

\* c.traversed left false on a leaf.
TraversedForgetsLeaf(branch) == branch = "parent"

\* The value c.traversed is set to in each branch of the loop
\* (visitor.rs:78, 81, 86, 89).
Traversed(branch) == branch \in {"leaf", "parent"}

\* on_child called on the move to a sibling as well.
MethodAlwaysOnChild(branch) ==
    CASE branch = "child" -> "on_child"
      [] branch = "leaf" -> "on_leaf"
      [] branch = "sibling" -> "on_child"
      [] branch = "parent" -> "on_parent"

\* The Visitor method each branch of the loop calls (visitor.rs:79, 82, 87,
\* 90).
Method(branch) ==
    CASE branch = "child" -> "on_child"
      [] branch = "leaf" -> "on_leaf"
      [] branch = "sibling" -> "on_sibling"
      [] branch = "parent" -> "on_parent"

\* A call of a Visitor method with the Context as it is at the call.
Event(method, node, flag) == [method |-> method, node |-> node, traversed |-> flag]

InitVisitor ==
    /\ IsTree(tree)
    /\ cursor = 1
    /\ traversed = FALSE
    /\ at = "on_root"
    /\ events = <<>>
    /\ IdleGrammar
    /\ IdleLexical
    /\ IdlePipeline
    /\ IdleBuilder
    /\ IdleFormat
    /\ IdleCollect
    /\ IdleScope
    /\ IdleParse

\* self.<method>(&mut c)?: the method is called with the context after the
\* move of `branch` to `node`; an Err is returned at once.
Call(branch, node) ==
    /\ Len(events) < MaxEvents
    /\ cursor' = node
    /\ traversed' = Traversed(branch)
    /\ events' = Append(events, Event(Method(branch), node, Traversed(branch)))
    /\ \E result \in Results : at' = QuestionMark(result, "on_visit")
    /\ UNCHANGED <<tree, grammarVars, lexVars, pipelineVars, builderVars, formatVars,
                   collectVars, scopeVars, parseVars>>

\* visitor.rs:74.
OnRoot ==
    /\ at = "on_root"
    /\ events' = Append(events, Event("on_root", cursor, traversed))
    /\ \E result \in Results : at' = QuestionMark(result, "loop")
    /\ UNCHANGED <<tree, cursor, traversed, grammarVars, lexVars, pipelineVars,
                   builderVars, formatVars, collectVars, scopeVars, parseVars>>

\* visitor.rs:76-79.
OnChild ==
    /\ at = "loop"
    /\ ~traversed
    /\ goto_first_child(tree, cursor).moved
    /\ Call("child", goto_first_child(tree, cursor).cursor)

\* visitor.rs:80-83.
OnLeaf ==
    /\ at = "loop"
    /\ ~traversed
    /\ ~goto_first_child(tree, cursor).moved
    /\ Call("leaf", cursor)

\* visitor.rs:84-87.
OnSibling ==
    /\ at = "loop"
    /\ traversed
    /\ goto_next_sibling(tree, cursor).moved
    /\ Call("sibling", goto_next_sibling(tree, cursor).cursor)

\* visitor.rs:88-90.
OnParent ==
    /\ at = "loop"
    /\ traversed
    /\ ~goto_next_sibling(tree, cursor).moved
    /\ goto_parent(tree, cursor).moved
    /\ Call("parent", goto_parent(tree, cursor).cursor)

\* visitor.rs:91-93.
Break ==
    /\ at = "loop"
    /\ traversed
    /\ ~goto_next_sibling(tree, cursor).moved
    /\ ~goto_parent(tree, cursor).moved
    /\ at' = "on_end"
    /\ UNCHANGED <<tree, cursor, traversed, events, grammarVars, lexVars,
                   pipelineVars, builderVars, formatVars, collectVars, scopeVars, parseVars>>

\* visitor.rs:95.
OnVisit ==
    /\ at = "on_visit"
    /\ Len(events) < MaxEvents
    /\ events' = Append(events, Event("on_visit", cursor, traversed))
    /\ \E result \in Results : at' = QuestionMark(result, "loop")
    /\ UNCHANGED <<tree, cursor, traversed, grammarVars, lexVars, pipelineVars,
                   builderVars, formatVars, collectVars, scopeVars, parseVars>>

\* visitor.rs:97-99.
OnEnd ==
    /\ at = "on_end"
    /\ events' = Append(events, Event("on_end", cursor, traversed))
    /\ \E result \in Results : at' = QuestionMark(result, "returned")
    /\ UNCHANGED <<tree, cursor, traversed, grammarVars, lexVars, pipelineVars,
                   builderVars, formatVars, collectVars, scopeVars, parseVars>>

NextVisitor ==
    \/ OnRoot
    \/ OnChild
    \/ OnLeaf
    \/ OnSibling
    \/ OnParent
    \/ Break
    \/ OnVisit
    \/ OnEnd

SpecVisitor == InitVisitor /\ [][NextVisitor]_vars

\* perform runs to its return: the loop is not suspended midway.
SpecVisitorFair == SpecVisitor /\ WF_vars(NextVisitor)

\* The positions in `events` of the calls of `method` with the cursor on v.
Calls(method, v) ==
    {i \in 1..Len(events) : events[i].method = method /\ events[i].node = v}

\* The calls made with the cursor on v, in order.
EventsOn(v) == SelectSeq(events, LAMBDA e : e.node = v)

Descendants(v) == {d \in 1..Len(tree) : d # v /\ IsAncestorOrSelf(tree, v, d)}

Max(set) == CHOOSE x \in set : \A y \in set : x >= y

\* The nodes of the forward on_visit calls, in call order.
ForwardVisits ==
    LET forward == SelectSeq(events, LAMBDA e : e.method = "on_visit" /\ ~e.traversed)
    IN  [i \in 1..Len(forward) |-> forward[i].node]

\* C15: perform calls on_visit exactly twice for every node other than the
\* root: first in forward direction with traversed() = false when the node
\* is entered, then in returning direction with traversed() = true after its
\* whole subtree has been handled; the forward visits happen in document
\* order.  (The count is complete once perform has returned Ok.)
C15_TwoVisitsPerNode ==
    /\ \A v \in 2..Len(tree) :
          /\ Cardinality(Calls("on_visit", v)) <= 2
          /\ at = "returned" => Cardinality(Calls("on_visit", v)) = 2
          /\ Calls("on_visit", v) # {} =>
                ~events[Min(Calls("on_visit", v))].traversed
          /\ Cardinality(Calls("on_visit", v)) = 2 =>
                /\ events[Max(Calls("on_visit", v))].traversed
                /\ \A d \in Descendants(v) :
                      /\ Cardinality(Calls("on_visit", d)) = 2
                      /\ \A i \in 1..Len(events) :
                            events[i].node = d =>
                                /\ i > Min(Calls("on_visit", v))
                                /\ i < Max(Calls("on_visit", v))
    /\ ForwardVisits = [i \in 1..Len(ForwardVisits) |-> i + 1]

\* perform has returned Ok on a tree in which a node with children has a
\* later sibling.
C15_Witness ==
    /\ at = "returned"
    /\ \E v \in 2..Len(tree) : Children(tree, v) # {} /\ LaterSiblings(tree, v) # {}

\* C16: for every finite tree perform terminates; on_root is called exactly
\* once and before every other event, on_end exactly once and after every
\* other event, and when the loop ends the cursor is back on the node it
\* started from.  (on_end is reached when no earlier method returned Err.)
C16_PerformTerminates ==
    /\ <>(at \in {"returned", "failed"})
    /\ [](at # "on_root" =>
            /\ events # <<>>
            /\ events[1].method = "on_root"
            /\ \A i \in 2..Len(events) : events[i].method # "on_root")
    /\ [](\A i \in 1..Len(events) :
            events[i].method = "on_end" => i = Len(events) /\ at \in {"returned", "failed"})
    /\ [](at = "returned" => events[Len(events)].method = "on_end")
    /\ [](at \in {"on_end", "returned"} => cursor = 1)

\* perform has returned Ok on a tree of three levels.
C16_Witness ==
    /\ at = "returned"
    /\ \E v \in 2..Len(tree) : tree[v] # 1
    /\ events[Len(events)] = Event("on_end", 1, TRUE)

\* The chain of the methods called with the cursor on the non-root node v.
ChainOf(v) ==
    <<IF v = Min(Children(tree, tree[v])) THEN "on_child" ELSE "on_sibling",
      "on_visit",
      IF Children(tree, v) = {} THEN "on_leaf" ELSE "on_parent",
      "on_visit">>

\* C17: for every non-root node, the events delivered while the cursor is on
\* that node form exactly one of the four documented chains: (on_child or
\* on_sibling), on_visit, (on_leaf or on_parent), on_visit; on_child iff the
\* node is a first child, on_leaf iff it has no children, on_parent iff it
\* has children.  (The chain is complete once perform has returned Ok.)
C17_EventChains ==
    \A v \in 2..Len(tree) :
        /\ Len(EventsOn(v)) <= 4
        /\ \A i \in 1..Len(EventsOn(v)) : EventsOn(v)[i].method = ChainOf(v)[i]
        /\ at = "returned" => Len(EventsOn(v)) = 4

\* perform has returned Ok on a tree in which a node that is not a first
\* child has children and a first child is a leaf.
C17_Witness ==
    /\ at = "returned"
    /\ \E v \in 2..Len(tree) : v # Min(Children(tree, tree[v])) /\ Children(tree, v) # {}
    /\ \E v \in 2..Len(tree) : v = Min(Children(tree, tree[v])) /\ Children(tree, v) = {}
    /\ events[Len(events)].method = "on_end"

(***************************************************************************)
(* OutputFormat::parse (cli/src/parse.rs:24-52) with                       *)
(* SExpressionFlags::parse and CstFlags::parse (cli/src/render.rs:79-153). *)
(* A string is the sequence of its characters.                             *)
(***************************************************************************)
MaxFlags == 2

s_expression == <<"s", "-", "e", "x", "p", "r", "e", "s", "s", "i", "o", "n">>
cst == <<"c", "s", "t">>
xml == <<"x", "m", "l">>

\* render.rs:14-26, 41-45, 61-78, 102-123: the Default of each flags struct.
ExtraFlagsDefault == [render_timing |-> FALSE, line_flush |-> TRUE]

TextFlagsDefault == [show |-> FALSE, lines_count_from_one |-> FALSE]

SExpressionFlagsDefault ==
    [text |-> TextFlagsDefault, extra |-> ExtraFlagsDefault,
     show_positions |-> TRUE, one_line |-> FALSE]

CstFlagsDefault ==
    [text |-> TextFlagsDefault, extra |-> ExtraFlagsDefault,
     show_positions |-> TRUE, show_byte_positions |-> FALSE,
     unquoted_anonymous |-> FALSE, always_show_full_error_captures |-> FALSE]

\* match_flag: whether the character is a flag, and the flags after it.
ExtraFlags_match_flag(f, flag) ==
    CASE flag = "/" -> [matched |-> TRUE, flags |-> [f EXCEPT !.render_timing = TRUE]]
      [] flag = "L" -> [matched |-> TRUE, flags |-> [f EXCEPT !.line_flush = FALSE]]
      [] flag = "l" -> [matched |-> TRUE, flags |-> [f EXCEPT !.line_flush = TRUE]]
      [] OTHER -> [matched |-> FALSE, flags |-> f]

TextFlags_match_flag(f, flag) ==
    CASE flag = "0" -> [matched |-> TRUE, flags |-> [f EXCEPT !.lines_count_from_one = FALSE]]
      [] flag = "1" -> [matched |-> TRUE, flags |-> [f EXCEPT !.lines_count_from_one = TRUE]]
      [] flag = "T" -> [matched |-> TRUE, flags |-> [f EXCEPT !.show = FALSE]]
      [] flag = "t" -> [matched |-> TRUE, flags |-> [f EXCEPT !.show = TRUE]]
      [] OTHER -> [matched |-> FALSE, flags |-> f]

SExpressionFlags_match_flag(f, flag) ==
    CASE flag = "O" -> [matched |-> TRUE, flags |-> [f EXCEPT !.one_line = FALSE]]
      [] flag = "o" -> [matched |-> TRUE, flags |-> [f EXCEPT !.one_line = TRUE]]
      [] flag = "P" -> [matched |-> TRUE, flags |-> [f EXCEPT !.show_positions = FALSE]]
      [] flag = "p" -> [matched |-> TRUE, flags |-> [f EXCEPT !.show_positions = TRUE]]
      [] OTHER -> [matched |-> FALSE, flags |-> f]

CstFlags_match_flag(f, flag) ==
    CASE flag = "E" -> [matched |-> TRUE,
                        flags |-> [f EXCEPT !.always_show_full_error_captures = FALSE]]
      [] flag = "e" -> [matched |-> TRUE,
                        flags |-> [f EXCEPT !.always_show_full_error_captures = TRUE]]
      [] flag = "U" -> [matched |-> TRUE, flags |-> [f EXCEPT !.unquoted_anonymous = FALSE]]
      [] flag = "u" -> [matched |-> TRUE, flags |-> [f EXCEPT !.unquoted_anonymous = TRUE]]
      [] flag = "B" -> [matched |-> TRUE, flags |-> [f EXCEPT !.show_byte_positions = FALSE]]
      [] flag = "b" -> [matched |-> TRUE, flags |-> [f EXCEPT !.show_byte_positions = TRUE]]
      [] flag = "P" -> [matched |-> TRUE, flags |-> [f EXCEPT !.show_positions = FALSE]]
      [] flag = "p" -> [matched |-> TRUE, flags |-> [f EXCEPT !.show_positions = TRUE]]
      [] OTHER -> [matched |-> FALSE, flags |-> f]

\* f.match_flag(ch) || f.text.match_flag(ch) || f.extra.match_flag(ch), for
\* the flags struct of `format` (render.rs:95, 147).
MatchAnyFlag(format, f, ch) ==
    LET own == IF format = "SExpression" THEN SExpressionFlags_match_flag(f, ch)
               ELSE CstFlags_match_flag(f, ch)
        text == TextFlags_match_flag(f.text, ch)
        extra == ExtraFlags_match_flag(f.extra, ch)
    IN  IF own.matched THEN own
        ELSE IF text.matched THEN [matched |-> TRUE, flags |-> [f EXCEPT !.text = text.flags]]
        ELSE IF extra.matched
        THEN [matched |-> TRUE, flags |-> [f EXCEPT !.extra = extra.flags]]
        ELSE [matched |-> FALSE, flags |-> f]

Ok(format, flags) == [ok |-> TRUE, format |-> format, flags |-> <<flags>>, error |-> ""]

Err(message) == [ok |-> FALSE, format |-> "", flags |-> <<>>, error |-> message]

\* The loop `for ch in flags.chars()` of SExpressionFlags::parse and
\* CstFlags::parse (render.rs:93-98, 145-150), from the flags f on.
RECURSIVE ParseChars(_, _, _)
ParseChars(format, f, chars) ==
    IF chars = <<>> THEN Ok(format, f)
    ELSE IF ~MatchAnyFlag(format, f, Head(chars)).matched
    THEN Err(IF format = "SExpression" THEN "Unknown S-Expression output flag"
             ELSE "Unknown CST output flag")
    ELSE ParseChars(format, MatchAnyFlag(format, f, Head(chars)).flags, Tail(chars))

\* flags is an Option<&str>: <<>> for None, <<text>> for Some(text).
SExpressionFlags_parse(flags) ==
    ParseChars("SExpression", SExpressionFlagsDefault,
               IF flags = <<>> THEN <<>> ELSE flags[1])

CstFlags_parse(flags) ==
    ParseChars("Cst", CstFlagsDefault, IF flags = <<>> THEN <<>> ELSE flags[1])

\* str::split_once(':'): <<>> for None, <<before, after>> for Some.
RECURSIVE split_once(_, _)
split_once(text, delimiter) ==
    IF text = <<>> THEN <<>>
    ELSE IF Head(text) = delimiter THEN <<<<>>, Tail(text)>>
    ELSE LET rest == split_once(Tail(text), delimiter)
         IN  IF rest = <<>> THEN <<>>
             ELSE <<<<Head(text)>> \o rest[1], rest[2]>>

\* A prefix test that compares the first character only.
StartsWithFirstChar(text, prefix) == text # <<>> /\ text[1] = prefix[1]

\* str::starts_with.
starts_with(text, prefix) ==
    /\ Len(text) >= Len(prefix)
    /\ SubSeq(text, 1, Len(prefix)) = prefix

\* String::insert(idx, ch), idx counted from 0.
insert(text, idx, ch) ==
    SubSeq(text, 1, idx) \o <<ch>> \o SubSeq(text, idx + 1, Len(text))

\* OutputFormat::parse (parse.rs:24-52).  The value is the returned Result
\* and the number of calls of Self::parse made on the way.
RECURSIVE OutputFormat_parse(_)
OutputFormat_parse(text) ==
    LET split == split_once(text, ":")
        format == IF split = <<>> THEN text ELSE split[1]
        flags == IF split = <<>> THEN <<>> ELSE <<split[2]>>
    IN  IF format = <<"s">> \/ format = s_expression
        THEN [result |-> SExpressionFlags_parse(flags), recursions |-> 0]
        ELSE IF format = <<"c">> \/ format = cst
        THEN [result |-> CstFlags_parse(flags), recursions |-> 0]
        ELSE IF format = <<"x">> \/ format = xml
        THEN [result |-> IF flags # <<>>
                         THEN Err("XML output format does not support flags")
                         ELSE [ok |-> TRUE, format |-> "Xml", flags |-> <<>>, error |-> ""],
              recursions |-> 0]
        ELSE IF Len(format) > 1
        THEN IF \E prefix \in {s_expression, cst, xml} : starts_with(format, prefix)
             THEN [result |-> Err("Flags should be separated by a colon"),
                   recursions |-> 0]
             ELSE [result |-> OutputFormat_parse(insert(format, 1, ":")).result,
                   recursions |-> OutputFormat_parse(insert(format, 1, ":")).recursions + 1]
        ELSE [result |-> Err("Unknown output format"), recursions |-> 0]

\* The characters the flag strings are made of: flags of one format, of the
\* other, of both, and characters that are no flag.
FlagAlphabet == {"o", "b", "P", "t", "/", "l", "s", "m"}

\* The ways of writing a format in front of the flag characters.
Spellings ==
    <<<<"s">>, <<"s", ":">>, s_expression \o <<":">>,
      <<"c">>, <<"c", ":">>, cst \o <<":">>,
      <<"x">>, xml, <<"x", ":">>, xml \o <<":">>>>

InitFormat ==
    /\ \E n \in 0..MaxFlags : flags_text \in [1..n -> FlagAlphabet]
    /\ outputs = [k \in 1..Len(Spellings) |-> <<>>]
    /\ IdleGrammar
    /\ IdleLexical
    /\ IdlePipeline
    /\ IdleBuilder
    /\ IdleVisitor
    /\ IdleCollect
    /\ IdleScope
    /\ IdleParse

\* --output <spelling><flags> is parsed (main.rs:168; parse.rs:24), one
\* spelling after the other.
ParseOutputFormat ==
    /\ \E k \in 1..Len(Spellings) :
          /\ outputs[k] = <<>>
          /\ \A j \in 1..(k - 1) : outputs[j] # <<>>
          /\ outputs' = [outputs EXCEPT
                            ![k] = <<OutputFormat_parse(Spellings[k] \o flags_text)>>]
    /\ UNCHANGED <<flags_text, grammarVars, lexVars, pipelineVars, builderVars,
                   visitorVars, collectVars, scopeVars, parseVars>>

NextFormat == ParseOutputFormat

SpecFormat == InitFormat /\ [][NextFormat]_vars

\* flags_text is made only of flags valid for the format.
ValidFlags(format) ==
    \A i \in 1..Len(flags_text) :
        flags_text[i] \in
            IF format = "SExpression"
            THEN {"O", "o", "P", "p", "0", "1", "T", "t", "/", "L", "l"}
            ELSE {"E", "e", "U", "u", "B", "b", "P", "p", "0", "1", "T", "t", "/", "L", "l"}

\* The spellings first..last have all been parsed, with the same Ok result.
SameOkResult(first, last) ==
    \A j, k \in first..last :
        (outputs[j] # <<>> /\ outputs[k] # <<>>) =>
            /\ outputs[j][1].result = outputs[k][1].result
            /\ outputs[j][1].result.ok

\* C18: the first character of an output format is a shortcut for it: for
\* every string f of flag characters valid for the format, parse gives the
\* same result for "s"+f, "s:"+f and "s-expression:"+f, and for "c"+f, "c:"+f
\* and "cst:"+f; "x" and "xml" both give Xml, any flags on xml are rejected,
\* and the parse uses at most one recursive call.
C18_FirstCharacterIsAShortcut ==
    /\ ValidFlags("SExpression") =>
          /\ SameOkResult(1, 3)
          /\ \A k \in 1..3 : outputs[k] # <<>> => outputs[k][1].result.format = "SExpression"
    /\ ValidFlags("Cst") =>
          /\ SameOkResult(4, 6)
          /\ \A k \in 4..6 : outputs[k] # <<>> => outputs[k][1].result.format = "Cst"
    /\ \A k \in 7..8 :
          (outputs[k] # <<>> /\ flags_text = <<>>) =>
              outputs[k][1].result = [ok |-> TRUE, format |-> "Xml", flags |-> <<>>,
                                      error |-> ""]
    /\ \A k \in 7..10 :
          (/\ outputs[k] # <<>>
           /\ flags_text # <<>> \/ k >= 9
           /\ Spellings[k] \o flags_text # xml) => ~outputs[k][1].result.ok
    /\ \A k \in 1..Len(outputs) : outputs[k] # <<>> => outputs[k][1].recursions <= 1

\* "s"+f, "s:"+f and "s-expression:"+f have been parsed for flags f that
\* change a default, the first of them through the recursive call.
C18_Witness ==
    /\ flags_text # <<>>
    /\ ValidFlags("SExpression")
    /\ \A k \in 1..3 : outputs[k] # <<>>
    /\ outputs[1][1].recursions = 1
    /\ outputs[1][1].result.flags # <<SExpressionFlagsDefault>>

(***************************************************************************)
(* Inputs::collect (cli/src/input.rs:20-104).  A path argument is kept as  *)
(* the number of '!' it starts with and the text after them.  The file     *)
(* system holds the files of `Files`; an Option is <<>> for None and       *)
(* <<value>> for Some(value).                                              *)
(***************************************************************************)
MaxPaths == 2
MaxLines == 1

PathArg(negations, text) == [negations |-> negations, text |-> text]

Files == {"a.txt", "b.txt"}

PathArgs ==
    {PathArg(n, text) : n \in 0..1, text \in {"a.txt", "b.txt", "c.txt", "*.txt", "["}}
    \cup {PathArg(2, "b.txt"), PathArg(0, "-")}

\* Input::File(PathBuf) and Input::Snippet(String) (input.rs:12-15).
File(path) == [kind |-> "File", value |-> PathArg(0, path)]

Snippet(arg) == [kind |-> "Snippet", value |-> arg]

\* Path::new(path).exists() (input.rs:52).
exists(path) == path \in Files

\* glob(path) (input.rs:55-56): the paths matching the pattern, in
\* alphabetical order, or a PatternError.
glob(pattern) ==
    CASE pattern = "*.txt" -> [ok |-> TRUE, paths |-> <<"a.txt", "b.txt">>]
      [] pattern = "[" -> [ok |-> FALSE, paths |-> <<>>]
      [] OTHER -> [ok |-> TRUE, paths |-> <<>>]

\* The closure incorporate_path (input.rs:27-42): push a File, or remove
\* the first File with that path.
incorporate_path(list, path, positive) ==
    IF positive THEN Append(list, File(path))
    ELSE IF \E i \in 1..Len(list) : list[i] = File(path)
    THEN LET index == CHOOSE i \in 1..Len(list) :
                         list[i] = File(path) /\ \A j \in 1..(i - 1) : list[j] # File(path)
         IN  SubSeq(list, 1, index - 1) \o SubSeq(list, index + 1, Len(list))
    ELSE list

\* The loop `for path in paths` over the matches of a glob (input.rs:57-61).
RECURSIVE incorporate_paths(_, _, _)
incorporate_paths(list, matches, positive) ==
    IF matches = <<>> THEN list
    ELSE incorporate_paths(incorporate_path(list, Head(matches), positive),
                           Tail(matches), positive)

\* The inner fn collect (input.rs:26-64) on one path argument: the list
\* after it, or the error it returned.  `entries` is whether reading the
\* directory entries of a glob succeeds (`path?`, input.rs:58).
collect(arg, list, entries) ==
    LET positive == ~(arg.negations > 0)
        path == arg.text
    IN  IF exists(path)
        THEN [ok |-> TRUE, inputs |-> incorporate_path(list, path, positive), error |-> ""]
        ELSE IF ~glob(path).ok
        THEN [ok |-> FALSE, inputs |-> list, error |-> "Invalid glob pattern"]
        ELSE IF glob(path).paths # <<>> /\ entries = "Err"
        THEN [ok |-> FALSE, inputs |-> list, error |-> "GlobError"]
        ELSE [ok |-> TRUE, inputs |-> incorporate_paths(list, glob(path).paths, positive),
              error |-> ""]

\* The emptiness test left out.
NeverEmpty(list) == FALSE

\* Vec::is_empty (input.rs:99).
is_empty(list) == Len(list) = 0

MustProvide == "Must provide one or more paths, globs or snippets"

InitCollect ==
    /\ \E given \in BOOLEAN, readable \in BOOLEAN, n \in 0..MaxLines :
          \E lines \in [1..n -> PathArgs] :
              /\ ~given => (readable /\ n = 0)
              /\ ~readable => n = 0
              /\ paths_file = IF given THEN <<[readable |-> readable, lines |-> lines]>>
                              ELSE <<>>
    /\ \E given \in BOOLEAN, n \in 0..MaxPaths :
          \E args \in [1..n -> PathArgs] :
              /\ ~given => n = 0
              /\ paths = IF given THEN <<args>> ELSE <<>>
    /\ inputs = <<>>
    /\ next_snippet = FALSE
    /\ remaining = <<>>
    /\ collecting = "paths_file"
    /\ collected = [ok |-> FALSE, error |-> "not returned"]
    /\ IdleGrammar
    /\ IdleLexical
    /\ IdlePipeline
    /\ IdleBuilder
    /\ IdleVisitor
    /\ IdleFormat
    /\ IdleScope
    /\ IdleParse

outsideCollect ==
    <<grammarVars, lexVars, pipelineVars, builderVars, visitorVars, formatVars,
      scopeVars, parseVars>>

\* `return Err(...)` or the `?` operator on an Err.
ReturnErr(message) ==
    /\ collected' = [ok |-> FALSE, error |-> message]
    /\ collecting' = "returned"

\* The arguments the loop of input.rs:78 runs over.
PathsToProcess == IF paths = <<>> THEN <<>> ELSE paths[1]

\* input.rs:66-69.
ReadPathsFile ==
    /\ collecting = "paths_file"
    /\ IF paths_file = <<>>
       THEN /\ collecting' = "paths"
            /\ remaining' = PathsToProcess
            /\ UNCHANGED collected
       ELSE IF ~paths_file[1].readable
       THEN /\ ReturnErr("Failed to read paths file")
            /\ UNCHANGED remaining
       ELSE /\ collecting' = "lines"
            /\ remaining' = paths_file[1].lines
            /\ UNCHANGED collected
    /\ UNCHANGED <<paths_file, paths, inputs, next_snippet, outsideCollect>>

\* input.rs:71-73: collect(path, &mut inputs)? on the next line.
CollectLine ==
    /\ collecting = "lines"
    /\ remaining # <<>>
    /\ \E entries \in Results :
          LET done == collect(Head(remaining), inputs, entries)
          IN  IF done.ok
              THEN /\ inputs' = done.inputs
                   /\ remaining' = Tail(remaining)
                   /\ UNCHANGED <<collecting, collected>>
              ELSE /\ ReturnErr(done.error)
                   /\ UNCHANGED <<inputs, remaining>>
    /\ UNCHANGED <<paths_file, paths, next_snippet, outsideCollect>>

\* input.rs:73-76: the lines are exhausted.
EndOfLines ==
    /\ collecting = "lines"
    /\ remaining = <<>>
    /\ collecting' = "paths"
    /\ remaining' = PathsToProcess
    /\ UNCHANGED <<paths_file, paths, inputs, next_snippet, collected, outsideCollect>>

\* input.rs:78-90: one turn of the loop over the path arguments.
TakePath ==
    /\ collecting = "paths"
    /\ remaining # <<>>
    /\ IF next_snippet
       THEN /\ inputs' = Append(inputs, Snippet(Head(remaining)))
            /\ next_snippet' = FALSE
            /\ remaining' = Tail(remaining)
            /\ UNCHANGED <<collecting, collected>>
       ELSE IF Head(remaining) = PathArg(0, "-")
       THEN /\ next_snippet' = TRUE
            /\ remaining' = Tail(remaining)
            /\ UNCHANGED <<inputs, collecting, collected>>
       ELSE \E entries \in Results :
               LET done == collect(Head(remaining), inputs, entries)
               IN  IF done.ok
                   THEN /\ inputs' = done.inputs
                        /\ remaining' = Tail(remaining)
                        /\ UNCHANGED <<next_snippet, collecting, collected>>
                   ELSE /\ ReturnErr(done.error)
                        /\ UNCHANGED <<inputs, next_snippet, remaining>>
    /\ UNCHANGED <<paths_file, paths, outsideCollect>>

\* input.rs:92-96: a trailing "-" reads the snippet from stdin.
ReadStdin ==
    /\ collecting = "paths"
    /\ remaining = <<>>
    /\ next_snippet
    /\ \E result \in Results :
          IF result = "Ok"
          THEN /\ inputs' = Append(inputs, Snippet(PathArg(0, "stdin")))
               /\ collecting' = "is_empty"
               /\ UNCHANGED collected
          ELSE /\ ReturnErr("stdin")
               /\ UNCHANGED inputs
    /\ UNCHANGED <<paths_file, paths, next_snippet, remaining, outsideCollect>>

\* input.rs:99-103.
ReturnInputs ==
    /\ \/ collecting = "is_empty"
       \/ collecting = "paths" /\ remaining = <<>> /\ ~next_snippet
    /\ collected' = IF is_empty(inputs) THEN [ok |-> FALSE, error |-> MustProvide]
                    ELSE [ok |-> TRUE, error |-> ""]
    /\ collecting' = "returned"
    /\ UNCHANGED <<paths_file, paths, inputs, next_snippet, remaining, outsideCollect>>

NextCollect ==
    \/ ReadPathsFile
    \/ CollectLine
    \/ EndOfLines
    \/ TakePath
    \/ ReadStdin
    \/ ReturnInputs

SpecCollect == InitCollect /\ [][NextCollect]_vars

\* C19: Inputs::collect returns Ok only with at least one input: whenever
\* processing the paths file and the path arguments leaves the list empty
\* (no arguments, globs matching nothing, or every added path removed again
\* by a '!' argument) it returns the error "Must provide one or more paths,
\* globs or snippets".
C19_OkOnlyWithAnInput ==
    collecting = "returned" =>
        /\ collected.ok => inputs # <<>>
        /\ (inputs = <<>> /\ collected.error \notin
              {"Failed to read paths file", "Invalid glob pattern", "GlobError", "stdin"})
              => collected = [ok |-> FALSE, error |-> MustProvide]
        /\ (paths_file = <<>> /\ PathsToProcess = <<>>) =>
              collected = [ok |-> FALSE, error |-> MustProvide]

\* A path was added and then removed again by a '!' argument, and collect
\* has returned the error.
C19_Witness ==
    /\ collecting = "returned"
    /\ collected = [ok |-> FALSE, error |-> MustProvide]
    /\ paths # <<>>
    /\ \E i, j \in 1..Len(paths[1]) :
          /\ i < j
          /\ paths[1][i].negations = 0
          /\ exists(paths[1][i].text)
          /\ paths[1][j].negations > 0
          /\ paths[1][j].text = paths[1][i].text

(***************************************************************************)
(* ScopeRange::parse_inputs (cli/src/render.rs:165-292).  `occurrences`    *)
(* holds, per --limit-range occurrence, its one or two values              *)
(* (main.rs:81-87); a value is the sequence of its characters.             *)
(***************************************************************************)
MaxOccurrences == 2

\* usize::MAX (render.rs:204), kept as the largest integer of the model.
usize_MAX == 2147483647

error_text == <<"e", "r", "r", "o", "r">>
error_path_text == error_text \o <<"-", "p", "a", "t", "h">>

Point(row, column) == [row |-> row, column |-> column]

\* ScopeRange (render.rs:157-162); a variant without a field has it zero.
Range_(start, end) == [kind |-> "Range", start |-> start, end |-> end]
Node(start) == [kind |-> "Node", start |-> start, end |-> Point(0, 0)]
ErrorPath == [kind |-> "ErrorPath", start |-> Point(0, 0), end |-> Point(0, 0)]
Error == [kind |-> "Error", start |-> Point(0, 0), end |-> Point(0, 0)]

Digits == <<"0", "1", "2", "3", "4", "5", "6", "7", "8", "9">>

IsDigit(ch) == \E d \in 1..Len(Digits) : Digits[d] = ch

DigitValue(ch) == (CHOOSE d \in 1..Len(Digits) : Digits[d] = ch) - 1

\* str::parse::<usize>(): Err on an empty text and on a character that is
\* no digit.
RECURSIVE ParseDigits(_, _)
ParseDigits(text, value) ==
    IF text = <<>> THEN [ok |-> TRUE, value |-> value]
    ELSE IF ~IsDigit(Head(text)) THEN [ok |-> FALSE, value |-> 0]
    ELSE ParseDigits(Tail(text), 10 * value + DigitValue(Head(text)))

parse(text) == IF text = <<>> THEN [ok |-> FALSE, value |-> 0] ELSE ParseDigits(text, 0)

\* str::ends_with for a one-character pattern.
ends_with(text, ch) == text # <<>> /\ text[Len(text)] = ch

\* &start[..start.len().saturating_sub(1)].
WithoutLast(text) == SubSeq(text, 1, IF Len(text) = 0 THEN 0 ELSE Len(text) - 1)

\* The pattern used for every point: "row:column" when split_once(':')
\* gives Some, else "row" with column 0; each parse() is followed by `?`.
parse_point(text) ==
    LET split == split_once(text, ":")
    IN  IF split = <<>>
        THEN [ok |-> parse(text).ok, point |-> Point(parse(text).value, 0)]
        ELSE [ok |-> parse(split[1]).ok /\ parse(split[2]).ok,
              point |-> Point(parse(split[1]).value, parse(split[2]).value)]

Push(range) == [outcome |-> "push", range |-> range, error |-> ""]

Return(range) == [outcome |-> "return", range |-> range, error |-> ""]

Bail(message) == [outcome |-> "bail", range |-> Error, error |-> message]

\* The range of an occurrence, or the parse error of its point.
PushParsed(ok, range) == IF ok THEN Push(range) ELSE Bail("ParseIntError")

\* `error` accepted whenever it is the only value of its occurrence.
StandaloneInItsOccurrence(values, count) == Len(values) = 1

\* input.len() == 1 && inputs.len() == 1 (render.rs:173, 181).
Standalone(values, count) == Len(values) = 1 /\ count = 1

\* One turn of the loop `while let Some(input) = ranges.next()`
\* (render.rs:168-272) on the occurrence `values`, one of `count`: the range
\* to push, the range to return at once, or the error.
parse_input(values, count) ==
    LET start == values[1]
    IN  IF start = error_text
        THEN IF Standalone(values, count) THEN Return(Error)
             ELSE Bail("--limit-range error can only be used standalone")
        ELSE IF start = error_path_text
        THEN IF Standalone(values, count) THEN Return(ErrorPath)
             ELSE Bail("--limit-range error-path can only be used standalone")
        ELSE IF Len(values) = 1
        THEN IF ends_with(start, "-")
             THEN IF ends_with(WithoutLast(start), "@")
                  THEN Bail("It is not allowed to use - and @ on a point")
                  ELSE PushParsed(parse_point(WithoutLast(start)).ok,
                                  Range_(parse_point(WithoutLast(start)).point,
                                         Point(usize_MAX, usize_MAX)))
             ELSE IF ~ends_with(start, "@")
             THEN PushParsed(parse_point(start).ok,
                             Range_(Point(0, 0), parse_point(start).point))
             ELSE IF ends_with(WithoutLast(start), "-")
             THEN Bail("It is not allowed to use - and @ on a point")
             ELSE PushParsed(parse_point(WithoutLast(start)).ok,
                             Node(parse_point(WithoutLast(start)).point))
        ELSE PushParsed(parse_point(start).ok /\ parse_point(values[2]).ok,
                        Range_(parse_point(start).point, parse_point(values[2]).point))

\* Point's derived Ord: by row, then by column.
PointLess(a, b) == a.row < b.row \/ (a.row = b.row /\ a.column < b.column)

\* The comparator of render.rs:278-286, b.cmp(&a): a goes before b when its
\* start is the greater one.
Before(a, b) == PointLess(b.start, a.start)

\* slice::sort_by is stable: it keeps the order of elements that compare
\* equal.  Insertion of x behind every element that is not after it.
RECURSIVE InsertSorted(_, _)
InsertSorted(sorted, x) ==
    IF sorted = <<>> THEN <<x>>
    ELSE IF Before(x, Head(sorted)) THEN <<x>> \o sorted
    ELSE <<Head(sorted)>> \o InsertSorted(Tail(sorted), x)

RECURSIVE sort_by(_)
sort_by(list) ==
    IF list = <<>> THEN <<>>
    ELSE InsertSorted(sort_by(SubSeq(list, 1, Len(list) - 1)), list[Len(list)])

\* The comparator reaches unreachable!() when one of the two elements is
\* Error or ErrorPath (render.rs:285); a sort of two elements or more
\* compares every element with another one.
SortPanics(list) ==
    Len(list) >= 2 /\ \E i \in 1..Len(list) : list[i].kind \in {"Error", "ErrorPath"}

\* The values an occurrence starts with, and the values it can go on with.
FirstValues ==
    {error_text, error_path_text, <<"1">>, <<"0", ":", "2">>, <<"2", ":", "1">>,
     <<"1", "-">>, <<"2", ":", "1", "-">>, <<"1", "@">>, <<"0", ":", "2", "@">>,
     <<"1", "-", "@">>, <<"1", "@", "-">>, <<"x">>}

SecondValues == {<<"2">>, <<"1", ":", "1">>, error_text}

Occurrences == {<<v>> : v \in FirstValues} \cup (FirstValues \X SecondValues)

InitScope ==
    /\ \E n \in 1..MaxOccurrences : occurrences \in [1..n -> Occurrences]
    /\ next_input = 1
    /\ limit_ranges = <<>>
    /\ parsed = "running"
    /\ IdleGrammar
    /\ IdleLexical
    /\ IdlePipeline
    /\ IdleBuilder
    /\ IdleVisitor
    /\ IdleFormat
    /\ IdleCollect
    /\ IdleParse

outsideScope ==
    <<grammarVars, lexVars, pipelineVars, builderVars, visitorVars, formatVars,
      collectVars, parseVars>>

\* render.rs:168-272: the loop body on the next occurrence.
ParseInput ==
    /\ parsed = "running"
    /\ next_input <= Len(occurrences)
    /\ LET done == parse_input(occurrences[next_input], Len(occurrences))
       IN  /\ limit_ranges' = IF done.outcome = "bail" THEN limit_ranges
                              ELSE Append(limit_ranges, done.range)
           /\ parsed' = CASE done.outcome = "bail" -> "Err"
                          [] done.outcome = "return" -> "Ok"
                          [] OTHER -> parsed
    /\ next_input' = next_input + 1
    /\ UNCHANGED <<occurrences, outsideScope>>

\* render.rs:277-289: the sort and the return of the list.
SortAndReturn ==
    /\ parsed = "running"
    /\ next_input > Len(occurrences)
    /\ IF SortPanics(limit_ranges)
       THEN parsed' = "panicked" /\ UNCHANGED limit_ranges
       ELSE parsed' = "Ok" /\ limit_ranges' = sort_by(limit_ranges)
    /\ UNCHANGED <<occurrences, next_input, outsideScope>>

NextScope ==
    \/ ParseInput
    \/ SortAndReturn

SpecScope == InitScope /\ [][NextScope]_vars

ErrorTexts == {error_text, error_path_text}

\* Some occurrence has "error" or "error-path" as its first value.
ErrorIsAFirstValue ==
    \E i \in 1..Len(occurrences) : occurrences[i][1] \in ErrorTexts

\* "error" or "error-path" is the single value of the single occurrence.
ErrorIsStandalone ==
    /\ Len(occurrences) = 1
    /\ Len(occurrences[1]) = 1
    /\ occurrences[1][1] \in ErrorTexts

\* No entry of the list starts before a later one.
StartsNonIncreasing(list) ==
    \A i, j \in 1..Len(list) : i < j => ~PointLess(list[i].start, list[j].start)

\* C20: parse_inputs accepts "error" and "error-path" only as the single
\* value of the single --limit-range occurrence and then returns the list
\* of that one entry; whenever one of them is the first value of an
\* occurrence in any other combination it returns an error; on every other
\* input a returned list has one Range or Node entry per occurrence, in
\* non-increasing order of the start points; the unreachable!() arm of the
\* sort comparator is never executed.
C20_ErrorStandaloneAndSortedRanges ==
    /\ parsed # "panicked"
    /\ parsed # "running" =>
        /\ ErrorIsStandalone =>
            /\ parsed = "Ok"
            /\ limit_ranges =
                 <<IF occurrences[1][1] = error_text THEN Error ELSE ErrorPath>>
        /\ ErrorIsAFirstValue /\ ~ErrorIsStandalone => parsed = "Err"
        /\ ~ErrorIsAFirstValue /\ parsed = "Ok" =>
            /\ Len(limit_ranges) = Len(occurrences)
            /\ \A i \in 1..Len(limit_ranges) : limit_ranges[i].kind \in {"Range", "Node"}
            /\ StartsNonIncreasing(limit_ranges)

\* C20 witness: two occurrences given in increasing order of their starts, a
\* node at 1:0 and then a range from 2:1, are returned with the range first.
C20_Witness ==
    /\ parsed = "Ok"
    /\ occurrences = <<<<<<"1", "@">>>>, <<<<"2", ":", "1", "-">>>>>>
    /\ limit_ranges = <<Range_(Point(2, 1), Point(usize_MAX, usize_MAX)),
                        Node(Point(1, 0))>>

(***************************************************************************)
(* parse_input's choice of an encoding for a source file                   *)
(* (cli/src/parse.rs:117-140, cli/src/render.rs:1197-1231).                *)
(***************************************************************************)
MaxBytes == 3

\* The bytes a source file is made of: the bytes of the three byte order
\* marks and an ASCII letter.
Bytes == {239, 187, 191, 255, 254, 65}

Encodings == <<"UTF8", "UTF16LE", "UTF16BE">>

\* Encoding::bom (render.rs:1205-1211).
bom(enc) ==
    CASE enc = "UTF8" -> <<239, 187, 191>>
      [] enc = "UTF16LE" -> <<255, 254>>
      [] enc = "UTF16BE" -> <<254, 255>>

\* One turn of the loop of test_bytes (render.rs:1215-1219).
HasBom(bytes, enc) ==
    /\ Len(bytes) >= Len(bom(enc))
    /\ SubSeq(bytes, 1, Len(bom(enc))) = bom(enc)

\* Encoding::test_bytes (render.rs:1213-1223): the first encoding, in the
\* order UTF8, UTF16LE, UTF16BE, whose byte order mark the input starts
\* with; <<>> for None.
test_bytes(bytes) ==
    IF \E k \in 1..Len(Encodings) : HasBom(bytes, Encodings[k])
    THEN <<Encodings[CHOOSE k \in 1..Len(Encodings) :
                /\ HasBom(bytes, Encodings[k])
                /\ \A j \in 1..(k - 1) : ~HasBom(bytes, Encodings[j])]>>
    ELSE <<>>

\* as_u16_slice (render.rs:1226-1231): whether the assertion holds, and the
\* length of the slice of u16 it returns.
as_u16_slice(slice) ==
    [asserted |-> Len(slice) % 2 = 0, len |-> Len(slice) \div 2]

InitEncoding ==
    /\ \E n \in 0..MaxBytes : source_code \in [1..n -> Bytes]
    /\ encoding = "UTF8"
    /\ bom_len = 0
    /\ decoding = "start"
    /\ IdleEdit
    /\ IdleSearch
    /\ IdleGrammar
    /\ IdleLexical
    /\ IdlePipeline
    /\ IdleBuilder
    /\ IdleVisitor
    /\ IdleFormat
    /\ IdleCollect
    /\ IdleScope

outsideParse ==
    <<grammarVars, lexVars, pipelineVars, builderVars, visitorVars, formatVars,
      collectVars, scopeVars>>

\* parse.rs:117-119: test_bytes(..).map(|x| (x, x.bom().len()))
\* .unwrap_or((Encoding::UTF8, 0)).
TestBytes ==
    /\ decoding = "start"
    /\ LET found == test_bytes(source_code)
       IN  /\ encoding' = IF found = <<>> THEN "UTF8" ELSE found[1]
           /\ bom_len' = IF found = <<>> THEN 0 ELSE Len(bom(found[1]))
    /\ decoding' = "tested"
    /\ UNCHANGED <<source_code, editVars, searchVars, outsideParse>>

\* parse.rs:131: Encoding::UTF8 => parser.parse(&input.source_code, None).
ParseUtf8 ==
    /\ decoding = "tested"
    /\ encoding = "UTF8"
    /\ decoding' = "parsed"
    /\ UNCHANGED <<source_code, encoding, bom_len, editVars, searchVars, outsideParse>>

\* parse.rs:132-139: the UTF16LE and UTF16BE arms hand the whole of
\* input.source_code to as_u16_slice, whose assert! panics on a false
\* condition.
ParseUtf16 ==
    /\ decoding = "tested"
    /\ encoding \in {"UTF16LE", "UTF16BE"}
    /\ decoding' = IF as_u16_slice(source_code).asserted THEN "parsed" ELSE "panicked"
    /\ UNCHANGED <<source_code, encoding, bom_len, editVars, searchVars, outsideParse>>

NextEncoding ==
    \/ TestBytes
    \/ ParseUtf8
    \/ ParseUtf16

SpecEncoding == InitEncoding /\ [][NextEncoding]_vars

\* C21: on every call of as_u16_slice made by parse_input the assertion
\* holds: whenever test_bytes selected UTF16LE or UTF16BE for a source file,
\* the byte slice handed to as_u16_slice has an even length, whatever the
\* file holds.
C21_U16SliceAssertionHolds ==
    (decoding \in {"parsed", "panicked"} /\ encoding \in {"UTF16LE", "UTF16BE"}) =>
        /\ Len(source_code) % 2 = 0
        /\ decoding = "parsed"

(***************************************************************************)
(* offset_for_position and position_for_offset (cli/src/parse.rs:431-458), *)
(* the two functions create_edit and perform_edit convert with.            *)
(***************************************************************************)
MaxEditBytes == 3

\* The bytes of the input: '\n' and one other character.
EditBytes == {10, 97}

\* The step both loops make on the byte c (parse.rs:434-439, 450-455).
Advance(current, c) ==
    IF c = 10 THEN Point(current.row + 1, 0)
    ELSE Point(current.row, current.column + 1)

\* current_position >= position.
PointGreaterOrEqual(a, b) == ~PointLess(a, b)

\* current_position > position (parse.rs:440), Point's derived Ord.
PointGreater(a, b) == PointLess(b, a)

\* The loop of offset_for_position from the byte of index i (counted from
\* 0) on, with current_position as it is before that byte.
RECURSIVE OffsetLoop(_, _, _, _)
OffsetLoop(bytes, target, i, current) ==
    IF i >= Len(bytes) THEN Len(bytes)
    ELSE IF PointGreater(Advance(current, bytes[i + 1]), target) THEN i
    ELSE OffsetLoop(bytes, target, i + 1, Advance(current, bytes[i + 1]))

\* offset_for_position (parse.rs:431-445).
offset_for_position(bytes, target) == OffsetLoop(bytes, target, 0, Point(0, 0))

\* position_for_offset (parse.rs:447-458): the loop over &input[0..offset].
RECURSIVE position_for_offset(_, _)
position_for_offset(bytes, upto) ==
    IF upto = 0 THEN Point(0, 0)
    ELSE Advance(position_for_offset(bytes, upto - 1), bytes[upto])

InitEdit ==
    /\ \E n \in 0..MaxEditBytes : edit_source \in [1..n -> EditBytes]
    /\ edit_offset \in 0..MaxEditBytes
    /\ edit_offset <= Len(edit_source)
    /\ edit_probe \in [row : 0..MaxEditBytes, column : 0..(MaxEditBytes + 1)]
    /\ edit_position = <<>>
    /\ edit_found = <<>>
    /\ probe_found = <<>>
    /\ IdleEncoding
    /\ IdleSearch
    /\ IdleGrammar
    /\ IdleLexical
    /\ IdlePipeline
    /\ IdleBuilder
    /\ IdleVisitor
    /\ IdleFormat
    /\ IdleCollect
    /\ IdleScope

\* perform_edit (parse.rs:369): position_for_offset(input, start_byte).
PositionForOffset ==
    /\ edit_position = <<>>
    /\ edit_position' = <<position_for_offset(edit_source, edit_offset)>>
    /\ UNCHANGED <<edit_source, edit_offset, edit_probe, edit_found, probe_found,
                   encodingVars, searchVars, outsideParse>>

\* offset_for_position on the position position_for_offset returned.
OffsetForPosition ==
    /\ edit_position # <<>>
    /\ edit_found = <<>>
    /\ edit_found' = <<offset_for_position(edit_source, edit_position[1])>>
    /\ UNCHANGED <<edit_source, edit_offset, edit_probe, edit_position, probe_found,
                   encodingVars, searchVars, outsideParse>>

\* create_edit (parse.rs:413): offset_for_position(source_code,
\* Point { row, column }) on the row and column of the edit string.
OffsetForProbe ==
    /\ probe_found = <<>>
    /\ probe_found' = <<offset_for_position(edit_source, edit_probe)>>
    /\ UNCHANGED <<edit_source, edit_offset, edit_probe, edit_position, edit_found,
                   encodingVars, searchVars, outsideParse>>

NextEdit ==
    \/ PositionForOffset
    \/ OffsetForPosition
    \/ OffsetForProbe

SpecEdit == InitEdit /\ [][NextEdit]_vars

\* The offsets of the newlines of the input, each offset counted from 0.
NewlineOffsets(bytes) == {i \in 0..(Len(bytes) - 1) : bytes[i + 1] = 10}

\* The row an offset lies on: the number of newlines before it.
RowOf(bytes, i) == Cardinality({k \in NewlineOffsets(bytes) : k < i})

\* The offset a row ends at: that of its terminating newline, or the length
\* of the input on the last row.
RowEnd(bytes, row) ==
    IF \E k \in NewlineOffsets(bytes) : RowOf(bytes, k) = row
    THEN CHOOSE k \in NewlineOffsets(bytes) : RowOf(bytes, k) = row
    ELSE Len(bytes)

\* The number of bytes of a row, its newline not counted.
RowLength(bytes, row) ==
    Cardinality({i \in 0..(Len(bytes) - 1) : RowOf(bytes, i) = row /\ bytes[i + 1] # 10})

\* The position lies on a row of the input, past the end of that row.
PastEndOfRow(bytes, target) ==
    /\ target.row <= Cardinality(NewlineOffsets(bytes))
    /\ target.column > RowLength(bytes, target.row)

\* C22: for every input and every offset o with 0 <= o <= input.len(),
\* offset_for_position(input, position_for_offset(input, o)) = o; and a
\* position whose column lies past the end of its row maps to the offset of
\* the newline that ends the row, or to input.len() on the last row.
C22_OffsetPositionRoundTrip ==
    /\ edit_found # <<>> => edit_found[1] = edit_offset
    /\ (probe_found # <<>> /\ PastEndOfRow(edit_source, edit_probe)) =>
          probe_found[1] = RowEnd(edit_source, edit_probe.row)

\* C22 witness: on the input "a\na" the offset 3, the end of the second
\* row, came back from its position 1:1, and the position 0:2, past the end
\* of the first row, gave the offset 1 of the newline.
C22_Witness ==
    /\ edit_source = <<97, 10, 97>>
    /\ edit_offset = 3
    /\ edit_position = <<Point(1, 1)>>
    /\ edit_found = <<3>>
    /\ edit_probe = Point(0, 2)
    /\ probe_found = <<1>>

(***************************************************************************)
(* The end of parse_input: the search for the first error of the tree and  *)
(* the value returned (cli/src/parse.rs:149, 203-210, 297-363).            *)
(***************************************************************************)
NodeKinds == {"node", "ERROR", "MISSING"}

\* Node::is_error and Node::is_missing.
is_error(t, n) == t.kind[n] = "ERROR"

is_missing(t, n) == t.kind[n] = "MISSING"

\* Node::has_error: the node or one of its descendants is an ERROR or a
\* MISSING node.
has_error(t, n) ==
    \E d \in 1..Len(t.parent) :
        /\ IsAncestorOrSelf(t.parent, n, d)
        /\ (is_error(t, d) \/ is_missing(t, d))

Found(node) == [outcome |-> "found", cursor |-> node]

Continue(node) == [outcome |-> "continue", cursor |-> node]

BreakAt(node) == [outcome |-> "break", cursor |-> node]

\* Moved on or break, by what a goto_ of the cursor returned.
Moved(move) == IF move.moved THEN Continue(move.cursor) ELSE BreakAt(move.cursor)

\* A loop body that passes over a node with an error below it.
StepWithoutDescent(t, c) ==
    IF has_error(t, c) /\ (is_error(t, c) \/ is_missing(t, c)) THEN Found(c)
    ELSE Moved(goto_next_sibling(t.parent, c))

\* One turn of the loop of parse.rs:299-313 with the cursor on c.
Step(t, c) ==
    IF has_error(t, c)
    THEN IF is_error(t, c) \/ is_missing(t, c) THEN Found(c)
         ELSE Moved(goto_first_child(t.parent, c))
    ELSE Moved(goto_next_sibling(t.parent, c))

InitSearch ==
    \* None, or a tree: the parent of each node as in IsTree, and its kind.
    /\ \/ parse_result = <<>>
       \/ \E n \in 1..MaxNodes :
            \E p \in [1..n -> 0..(n - 1)], k \in [1..n -> NodeKinds] :
                /\ IsTree(p)
                /\ parse_result = <<[parent |-> p, kind |-> k]>>
    /\ options \in [print_time : BOOLEAN, cst_output : BOOLEAN]
    /\ search_cursor = 1
    /\ first_error = <<>>
    /\ reported = <<>>
    /\ searching = "tree"
    /\ search_result = "running"
    /\ IdleEncoding
    /\ IdleEdit
    /\ IdleGrammar
    /\ IdleLexical
    /\ IdlePipeline
    /\ IdleBuilder
    /\ IdleVisitor
    /\ IdleFormat
    /\ IdleCollect
    /\ IdleScope

outsideSearch == <<encodingVars, editVars, outsideParse>>

\* parse.rs:350-362: no tree; with print_time the line "(timed out)" is
\* written, followed by `?`, and Ok(false) is returned.
NoTree ==
    /\ searching = "tree"
    /\ parse_result = <<>>
    /\ \E result \in Results :
          search_result' = IF options.print_time /\ result = "Err" THEN "Err"
                           ELSE "Ok(false)"
    /\ searching' = "returned"
    /\ UNCHANGED <<parse_result, options, search_cursor, first_error, reported,
                   outsideSearch>>

\* parse.rs:149-296: with a tree, the cursor is made on its root node
\* (parse.rs:203-210); the edits and the rendering before the search return
\* their errors with `?`, and leave the cursor on the root (the renderers
\* get a clone; xml_render ends with cursor.reset(start_node)).
Render ==
    /\ searching = "tree"
    /\ parse_result # <<>>
    /\ \E result \in Results :
          /\ searching' = IF result = "Err" THEN "returned" ELSE "loop"
          /\ search_result' = IF result = "Err" THEN "Err" ELSE search_result
    /\ search_cursor' = 1
    /\ UNCHANGED <<parse_result, options, first_error, reported, outsideSearch>>

\* parse.rs:299-313: one turn of the loop.
SearchStep ==
    /\ searching = "loop"
    /\ LET turn == Step(parse_result[1], search_cursor)
       IN  /\ search_cursor' = turn.cursor
           /\ first_error' = IF turn.outcome = "found" THEN <<turn.cursor>> ELSE first_error
           /\ searching' = IF turn.outcome = "continue" THEN "loop" ELSE "report"
    /\ UNCHANGED <<parse_result, options, reported, search_result, outsideSearch>>

\* parse.rs:315-349: the line of the file, naming first_error, is written
\* when (first_error.is_some() || print_time) && !cst_output, each write
\* followed by `?`; then Ok(first_error.is_some()).
Report ==
    /\ searching = "report"
    /\ \E result \in Results :
          LET writes == (first_error # <<>> \/ options.print_time) /\ ~options.cst_output
          IN  IF writes /\ result = "Err"
              THEN search_result' = "Err" /\ UNCHANGED reported
              ELSE /\ reported' = IF writes THEN first_error ELSE reported
                   /\ search_result' = IF first_error # <<>> THEN "Ok(true)"
                                       ELSE "Ok(false)"
    /\ searching' = "returned"
    /\ UNCHANGED <<parse_result, options, search_cursor, first_error, outsideSearch>>

NextSearch ==
    \/ NoTree
    \/ Render
    \/ SearchStep
    \/ Report

SpecSearch == InitSearch /\ [][NextSearch]_vars

\* Every statement of parse_input that can run is run.
SpecSearchFair == SpecSearch /\ WF_vars(NextSearch)

\* The ERROR and MISSING nodes of a tree; nodes are numbered in document
\* order.
ErrorNodes(t) == {n \in 1..Len(t.parent) : t.kind[n] \in {"ERROR", "MISSING"}}

\* Once the loop is left, first_error is Some exactly when the tree holds an
\* ERROR or MISSING node, and is the first of them.
LoopLeftWithFirstError ==
    (searching \in {"report", "returned"} /\ parse_result # <<>> /\ search_result # "Err") =>
        /\ (first_error # <<>>) <=> (ErrorNodes(parse_result[1]) # {})
        /\ first_error # <<>> => first_error[1] = Min(ErrorNodes(parse_result[1]))

ReturnsTrueIffErrorNode ==
    (searching = "returned" /\ parse_result # <<>>) =>
        /\ search_result \in {"Ok(true)", "Ok(false)", "Err"}
        /\ search_result = "Ok(true)" => ErrorNodes(parse_result[1]) # {}
        /\ search_result = "Ok(false)" => ErrorNodes(parse_result[1]) = {}
        /\ reported # <<>> => reported[1] = Min(ErrorNodes(parse_result[1]))

NoTreeReturnsFalse ==
    (searching = "returned" /\ parse_result = <<>>) =>
        /\ search_result \in {"Ok(false)", "Err"}
        /\ ~options.print_time => search_result = "Ok(false)"

====
